---- MODULE Spec2Model ----
(***************************************************************************)
(* The probabilistic sketches of the repository:                           *)
(*   homeworks/hw-5/hw-2-hll.py    HyperLogLog (cardinality estimator)     *)
(*   homeworks/hw-6/hw-1-bloom.py  BloomFilter and check_password_uniqueness*)
(*                                                                         *)
(* Python integers are unbounded.  A value that does not fit a machine     *)
(* word (a 64-bit fingerprint, a sum of fingerprints) is kept as the       *)
(* big-endian sequence of its digits: bytes (base 256) as the digest       *)
(* delivers them, bits (base 2) where the code shifts and masks.           *)
(***************************************************************************)
EXTENDS Integers, Sequences, FiniteSets, TLC

VARIABLES
    hll,            \* the HyperLogLog instance (NoInstance before __init__ succeeds)
    hllRet,         \* outcome of the last HyperLogLog call
    hllAdded,       \* history: the items passed to HyperLogLog.add so far
    bloom,          \* the BloomFilter instance (NoInstance before __init__ succeeds)
    bfRet,          \* outcome of the last BloomFilter / check_password_uniqueness call
    bfAdded,        \* history: the strings passed to BloomFilter.add so far
    chkPc,          \* "idle", or "loop" inside check_password_uniqueness
    chkMarkInvalid, \* the mark_invalid argument of the running call
    chkResults,     \* the local dict results of the running call
    chkTrace,       \* history: the candidates of the running call and their statuses
    twin,           \* a second HyperLogLog and a second BloomFilter of the same process
    thr,            \* two threads that call add on hll and bloom: their locals and lock
    mm,             \* a call of find_min_max_divide_and_conquer: argument, frames, result
    pr,             \* a call of optimize_printing: arguments, locals, result
    rs,             \* a run of run_experiment: both arrays, the cache, the checksums
    rl,             \* a SlidingWindowRateLimiter, the clock and the calls made on it
    lru             \* an LRUCache and the calls made on it

hllVars == <<hll, hllRet, hllAdded>>
bfVars == <<bloom, bfRet, bfAdded, chkPc, chkMarkInvalid, chkResults, chkTrace>>
chkVars == <<chkPc, chkMarkInvalid, chkResults, chkTrace>>
vars == <<hll, hllRet, hllAdded, bloom, bfRet, bfAdded,
          chkPc, chkMarkInvalid, chkResults, chkTrace, twin, thr, mm, pr, rs,
          rl, lru>>

\* The algorithms of the other homeworks, each a call of its own.
algVars == <<mm, pr, rs, rl, lru>>

\* What a call on one component leaves alone.
besideHll == <<bfVars, twin, thr, algVars>>
besideBloom == <<hllVars, twin, thr, algVars>>
besideTwin == <<hllVars, bfVars, thr, algVars>>
besideMm == <<hllVars, bfVars, twin, thr, pr, rs, rl, lru>>
besidePr == <<hllVars, bfVars, twin, thr, mm, rs, rl, lru>>
besideRs == <<hllVars, bfVars, twin, thr, mm, pr, rl, lru>>
besideRl == <<hllVars, bfVars, twin, thr, mm, pr, rs, lru>>
besideLru == <<hllVars, bfVars, twin, thr, mm, pr, rs, rl>>

NoInstance == [none |-> TRUE]
NoCall == [op |-> "none"]
NoTwin == [hll |-> NoInstance, bloom |-> NoInstance, ret |-> NoCall]

(***************************************************************************)
(* Bounds of the model.                                                    *)
(***************************************************************************)
NumHllItems == 6
NumBfRaws == 4
MaxK == 2
MaxBatch == 2
MmMaxLen == 5
MmMaxVal == 1
PrMaxJobs == 3

(***************************************************************************)
(* Program constants.                                                      *)
(***************************************************************************)
MinP == 4
MaxP == 18
HashBits == 64
ByteMax == 255
\* i.to_bytes(2, "big") holds only i < 2^16
SaltLimit == 65536

(***************************************************************************)
(* Unbounded naturals as digit sequences.                                  *)
(***************************************************************************)
Pow2(n) == 2 ^ n

\* The 8 bits of one byte, most significant first.
ByteBits(b) == [k \in 1..8 |-> (b \div Pow2(8 - k)) % 2]

\* int.from_bytes(bs, "big") written in binary, 8 * len(bs) bits.
BytesToBits(bs) ==
    [j \in 1..(8 * Len(bs)) |-> ByteBits(bs[((j - 1) \div 8) + 1])[((j - 1) % 8) + 1]]

\* The value of a short bit string (at most 30 bits) as a number.
RECURSIVE BitsToNat(_)
BitsToNat(bits) ==
    IF Len(bits) = 0 THEN 0
    ELSE 2 * BitsToNat(SubSeq(bits, 1, Len(bits) - 1)) + bits[Len(bits)]

\* h >> n
ShiftRight(h, n) == SubSeq(h, 1, Len(h) - n)

\* h & ((1 << n) - 1), kept n bits wide
MaskLow(h, n) == SubSeq(h, Len(h) - n + 1, Len(h))

\* w == 0
IsZero(w) == \A i \in 1..Len(w) : w[i] = 0

\* int.bit_length(): the width without the leading zeros
BitLength(w) ==
    IF IsZero(w) THEN 0
    ELSE LET first == CHOOSE i \in 1..Len(w) :
                          w[i] = 1 /\ \A j \in 1..(i - 1) : w[j] = 0
         IN  Len(w) - first + 1

\* Arithmetic on unbounded naturals, big-endian base-256 digit sequences.
\* The element of a one-element set; used to work an operand out once, where
\* it is read, as Python does with the arguments of a call.
Only(S) == CHOOSE v \in S : TRUE

Front(s) == SubSeq(s, 1, Len(s) - 1)

Last(s) == s[Len(s)]

\* x with zero digits in front, n digits long
PadTo(x, n) == [i \in 1..(n - Len(x)) |-> 0] \o x

\* x + y + carry for x and y of one length, at least 1: the carry out, then
\* the digits.  The low half is added first and hands its carry to the high
\* half.
RECURSIVE AddDigits(_, _, _)
AddDigits(x, y, carry) ==
    IF Len(x) = 1
    THEN <<(x[1] + y[1] + carry) \div 256, (x[1] + y[1] + carry) % 256>>
    ELSE Only(UNION {{hi \o Tail(lo) :
                         hi \in {AddDigits(SubSeq(x, 1, Len(x) \div 2),
                                           SubSeq(y, 1, Len(x) \div 2), lo[1])}} :
                     lo \in {AddDigits(SubSeq(x, (Len(x) \div 2) + 1, Len(x)),
                                       SubSeq(y, (Len(x) \div 2) + 1, Len(x)), carry)}})

\* x + y + carry
AddCarry(x, y, carry) ==
    IF Len(x) = 0 /\ Len(y) = 0
    THEN IF carry = 0 THEN <<>> ELSE <<carry>>
    ELSE Only({IF r[1] = 0 THEN Tail(r) ELSE r :
                  r \in {AddDigits(PadTo(x, (IF Len(x) >= Len(y) THEN Len(x) ELSE Len(y))),
                                   PadTo(y, (IF Len(x) >= Len(y) THEN Len(x) ELSE Len(y))), carry)}})

\* the digits of a machine-size carry
RECURSIVE CarryDigits(_)
CarryDigits(carry) ==
    IF carry = 0 THEN <<>> ELSE Append(CarryDigits(carry \div 256), carry % 256)

\* x * k + carry for x of at least one digit: the carry out, then the digits
RECURSIVE MulDigits(_, _, _)
MulDigits(x, k, carry) ==
    IF Len(x) = 1
    THEN <<(x[1] * k + carry) \div 256, (x[1] * k + carry) % 256>>
    ELSE Only(UNION {{hi \o Tail(lo) :
                         hi \in {MulDigits(SubSeq(x, 1, Len(x) \div 2), k, lo[1])}} :
                     lo \in {MulDigits(SubSeq(x, (Len(x) \div 2) + 1, Len(x)), k, carry)}})

\* x * k + carry
MulCarry(x, k, carry) ==
    IF Len(x) = 0 THEN CarryDigits(carry)
    ELSE Only({CarryDigits(r[1]) \o Tail(r) : r \in {MulDigits(x, k, carry)}})

\* x + y
BigAdd(x, y) == Only({AddCarry(a, b, 0) : a \in {x}, b \in {y}})

\* x * k for a machine-size k (k < 2^23)
BigMulSmall(x, k) == Only({MulCarry(a, k, 0) : a \in {x}})

\* the digits of a machine-size n
BigFromNat(n) == BigMulSmall(<<1>>, n)

\* x * y: x times the high half of y, moved up, plus x times the low half
RECURSIVE BigMul(_, _)
BigMul(x, y) ==
    IF Len(y) = 0 THEN <<>>
    ELSE IF Len(y) = 1 THEN BigMulSmall(x, y[1])
    ELSE BigAdd(BigMul(x, SubSeq(y, 1, Len(y) \div 2))
                    \o [i \in 1..(Len(y) - (Len(y) \div 2)) |-> 0],
                BigMul(x, SubSeq(y, (Len(y) \div 2) + 1, Len(y))))

\* 2 ^ s
RECURSIVE BigPow2(_)
BigPow2(s) == IF s < 8 THEN <<Pow2(s)>> ELSE Append(BigPow2(s - 8), 0)

\* x without its leading zero digits
BigNorm(x) ==
    IF \A i \in 1..Len(x) : x[i] = 0 THEN <<>>
    ELSE SubSeq(x, CHOOSE i \in 1..Len(x) : x[i] # 0 /\ \A j \in 1..(i - 1) : x[j] = 0,
                Len(x))

\* x <= y, digit by digit, for x and y of one length
LexLe(x, y) ==
    \A i \in 1..Len(x) : (\A j \in 1..(i - 1) : x[j] = y[j]) => x[i] <= y[i]

\* x <= y
BigLe(x, y) ==
    \E a \in {BigNorm(x)}, b \in {BigNorm(y)} :
        IF Len(a) # Len(b) THEN Len(a) < Len(b) ELSE LexLe(a, b)

\* x % n for a machine-size n (0 < n < 2^23)
RECURSIVE BigMod(_, _)
BigMod(x, n) ==
    IF Len(x) = 0 THEN 0
    ELSE (BigMod(Front(x), n) * 256 + Last(x)) % n

\* Exact fractions num/den of unbounded naturals stand for the floats.
Frac(n, d) == [num |-> n, den |-> d]

FracLe(a, b) ==
    \E p \in {a}, q \in {b} : BigLe(BigMul(p.num, q.den), BigMul(q.num, p.den))

FracIsZero(a) == Len(BigNorm(a.num)) = 0

(***************************************************************************)
(* HyperLogLog._hash64: blake2b(x, digest_size=8), read big-endian.        *)
(* add() uses an item only through this digest, so the items of the model  *)
(* are named after the digest they hash to.  The first three digests are   *)
(* the real blake2b digests of the three addresses; the others are digest  *)
(* values chosen for the corner cases of the index/rank split (all bits    *)
(* clear, lowest bit only, all bits set, bits around the p-bit boundary,   *)
(* two different items with one digest).                                   *)
(***************************************************************************)
HllPool ==
    << "192.168.0.1", "zero", "one", "10.0.0.7", "edge4", "ones",
       "zero-twin", "edge18", "172.16.5.4" >>

Blake2b8(x) ==
    CASE x = "192.168.0.1" -> <<213, 103, 253, 114, 10, 228, 173, 246>>
      [] x = "10.0.0.7"    -> <<2, 217, 48, 22, 204, 213, 46, 164>>
      [] x = "172.16.5.4"  -> <<73, 34, 105, 244, 44, 148, 101, 181>>
      [] x = "zero"        -> <<0, 0, 0, 0, 0, 0, 0, 0>>
      [] x = "zero-twin"   -> <<0, 0, 0, 0, 0, 0, 0, 0>>
      [] x = "one"         -> <<0, 0, 0, 0, 0, 0, 0, 1>>
      [] x = "ones"        -> <<255, 255, 255, 255, 255, 255, 255, 255>>
      [] x = "edge4"       -> <<8, 0, 0, 0, 0, 0, 0, 0>>
      [] x = "edge18"      -> <<0, 0, 32, 0, 0, 0, 1, 0>>
      [] x = "10.0.0.6" -> <<10, 62, 223, 170, 83, 199, 233, 73>>
      [] x = "10.0.0.29" -> <<24, 253, 54, 141, 207, 23, 149, 118>>
      [] x = "10.0.0.45" -> <<41, 18, 95, 14, 228, 113, 68, 82>>
      [] x = "10.0.0.17" -> <<60, 124, 202, 31, 121, 34, 250, 248>>
      [] x = "10.0.0.18" -> <<76, 95, 159, 96, 100, 84, 83, 247>>
      [] x = "10.0.0.21" -> <<93, 174, 238, 248, 163, 224, 80, 140>>
      [] x = "10.0.0.68" -> <<107, 176, 244, 123, 156, 33, 228, 160>>
      [] x = "10.0.0.10" -> <<122, 99, 247, 246, 152, 40, 49, 99>>
      [] x = "10.0.0.19" -> <<140, 55, 116, 105, 131, 95, 86, 167>>
      [] x = "10.0.0.11" -> <<153, 183, 57, 92, 248, 154, 160, 230>>
      [] x = "10.0.0.20" -> <<169, 149, 203, 143, 19, 52, 183, 243>>
      [] x = "10.0.0.96" -> <<187, 97, 6, 186, 251, 202, 192, 68>>
      [] x = "10.0.0.72" -> <<200, 155, 133, 11, 159, 127, 72, 149>>
      [] x = "10.0.0.8" -> <<216, 150, 192, 244, 209, 175, 224, 234>>
      [] x = "10.0.0.12" -> <<239, 228, 198, 186, 68, 174, 239, 77>>
      [] x = "10.0.0.46" -> <<252, 190, 3, 109, 204, 74, 1, 41>>
      [] x = "10.0.0.178" -> <<0, 111, 1, 27, 77, 121, 219, 141>>
      [] x = "10.0.3.5" -> <<16, 114, 122, 211, 224, 49, 151, 64>>
      [] x = "10.0.2.33" -> <<32, 38, 234, 234, 213, 223, 217, 142>>
      [] x = "10.0.0.236" -> <<48, 36, 49, 80, 228, 243, 42, 21>>
      [] x = "10.0.0.220" -> <<64, 86, 162, 185, 134, 178, 168, 86>>
      [] x = "10.0.0.183" -> <<80, 78, 153, 186, 236, 48, 41, 131>>
      [] x = "10.0.11.7" -> <<96, 62, 14, 249, 199, 215, 119, 91>>
      [] x = "10.0.5.24" -> <<112, 52, 54, 31, 206, 106, 173, 78>>
      [] x = "10.0.3.127" -> <<128, 73, 83, 135, 251, 84, 83, 149>>
      [] x = "10.0.1.123" -> <<144, 9, 168, 6, 186, 25, 245, 251>>
      [] x = "10.0.1.154" -> <<160, 117, 104, 170, 53, 116, 95, 200>>
      [] x = "10.0.6.150" -> <<176, 84, 7, 75, 174, 32, 244, 186>>
      [] x = "10.0.4.65" -> <<192, 71, 253, 152, 156, 218, 128, 35>>
      [] x = "10.0.0.86" -> <<208, 8, 17, 111, 97, 85, 30, 17>>
      [] x = "10.0.3.41" -> <<224, 90, 119, 53, 112, 68, 49, 176>>
      [] x = "10.0.0.216" -> <<240, 80, 130, 201, 39, 211, 44, 147>>

HllItems == {HllPool[i] : i \in 1..NumHllItems}

\* The addresses of an access log as hll_count_unique_ips reads it.  With
\* p = 4 the real digest of LogLo[i + 1] has index i and rank 1, that of
\* LogHi[i + 1] has index i and a rank of 6 or more.
LogLo ==
    << "10.0.0.6", "10.0.0.29", "10.0.0.45", "10.0.0.17",
       "10.0.0.18", "10.0.0.21", "10.0.0.68", "10.0.0.10",
       "10.0.0.19", "10.0.0.11", "10.0.0.20", "10.0.0.96",
       "10.0.0.72", "10.0.0.8", "10.0.0.12", "10.0.0.46" >>

LogHi ==
    << "10.0.0.178", "10.0.3.5", "10.0.2.33", "10.0.0.236",
       "10.0.0.220", "10.0.0.183", "10.0.11.7", "10.0.5.24",
       "10.0.3.127", "10.0.1.123", "10.0.1.154", "10.0.6.150",
       "10.0.4.65", "10.0.0.86", "10.0.3.41", "10.0.0.216" >>

LogItems == {LogLo[i] : i \in 1..Len(LogLo)} \cup {LogHi[i] : i \in 1..Len(LogHi)}

\* _hash64(x), tabulated once for the items of the model
Hash64Table == [x \in HllItems \cup LogItems |-> BytesToBits(Blake2b8(x))]

hash64(x) == Hash64Table[x]

(***************************************************************************)
(* HyperLogLog                                                             *)
(***************************************************************************)
\* _alpha(m): the bias constant as an exact fraction
\* (0.7213 / (1.0 + 1.079 / m) = 7213 * m / (10000 * m + 10790)).
alpha(m) ==
    IF m = 16 THEN Frac(BigFromNat(673), BigFromNat(1000))
    ELSE IF m = 32 THEN Frac(BigFromNat(697), BigFromNat(1000))
    ELSE IF m = 64 THEN Frac(BigFromNat(709), BigFromNat(1000))
    ELSE Frac(BigMulSmall(BigFromNat(7213), m),
              BigAdd(BigMulSmall(BigFromNat(10000), m), BigFromNat(10790)))

\* _rho(w, max_bits)
rho(w, max_bits) ==
    IF IsZero(w) THEN max_bits + 1
    ELSE (max_bits - BitLength(w)) + 1

\* registers is bytearray(m): m bytes, all zero at first.  The model keeps the
\* length (the field m) and the bytes written so far; a byte never written
\* reads 0.
Reg(registers, i) == IF i \in DOMAIN registers THEN registers[i] ELSE 0

SetReg(registers, i, v) ==
    [j \in (DOMAIN registers) \cup {i} |-> IF j = i THEN v ELSE registers[j]]

NoRegisters == [j \in {} |-> 0]

\* The object __init__ leaves behind for a valid p.
NewHll(p) ==
    [p |-> p, m |-> Pow2(p), registers |-> NoRegisters, alpha_m |-> alpha(Pow2(p))]

\* the range check with the upper end left out
ValidPOpen(p) == 4 <= p /\ p < 18

\* 4 <= p <= 18
ValidP(p) == 4 <= p /\ p <= 18

\* add(x): the index, the rank and the registers after the call.
\* the index taken from the low p bits: h & (m - 1)
AddIdxLow(h, x) == BitsToNat(MaskLow(hash64(x), h.p))

AddIdx(h, x) == BitsToNat(ShiftRight(hash64(x), HashBits - h.p))

AddW(h, x) == MaskLow(hash64(x), HashBits - h.p)

\* the rank taken in the full hash width: _rho(w, 64)
AddRankFullWidth(h, x) == rho(AddW(h, x), HashBits)

AddRank(h, x) == rho(AddW(h, x), HashBits - h.p)

\* add without the comparison: self.registers[idx] = rank
AddRegistersNoMax(h, x) == SetReg(h.registers, AddIdx(h, x), AddRank(h, x))

\* add with the register used as a counter: self.registers[idx] += 1
AddRegistersCounting(h, x) ==
    SetReg(h.registers, AddIdx(h, x), Reg(h.registers, AddIdx(h, x)) + 1)

AddRegisters(h, x) ==
    IF AddRank(h, x) > Reg(h.registers, AddIdx(h, x))
    THEN SetReg(h.registers, AddIdx(h, x), AddRank(h, x))
    ELSE h.registers

\* count(): the loop over the registers.  zeros counts the registers that are
\* 0; indicator is the sum of 2.0 ** (-v), here the exact fraction
\* IndicatorNum / 2^IndicatorScale.
NonZero(h) == {i \in DOMAIN h.registers : h.registers[i] # 0}

Zeros(h) == h.m - Cardinality(NonZero(h))

IndicatorScale(h) ==
    IF NonZero(h) = {} THEN 0
    ELSE CHOOSE s \in {h.registers[i] : i \in NonZero(h)} :
             \A i \in NonZero(h) : h.registers[i] <= s

\* The sum of 2^(scale - register) over the registers in S, the registers
\* of one rank taken together.
RECURSIVE SumPow2(_, _, _)
SumPow2(h, S, scale) ==
    IF S = {} THEN <<>>
    ELSE LET i == CHOOSE j \in S : TRUE
             same == {j \in S : h.registers[j] = h.registers[i]}
         IN  BigAdd(BigMulSmall(BigPow2(scale - h.registers[i]), Cardinality(same)),
                    SumPow2(h, S \ same, scale))

IndicatorNum(h) ==
    Only({BigAdd(BigMulSmall(BigPow2(scale), Zeros(h)), SumPow2(h, NonZero(h), scale)) :
              scale \in {IndicatorScale(h)}})

Indicator(h) == Frac(IndicatorNum(h), BigPow2(IndicatorScale(h)))

\* E = alpha_m * m**2 * (1.0 / indicator)
RawEstimate(h) ==
    Only({Frac(BigMul(BigMul(h.alpha_m.num, BigMulSmall(BigFromNat(h.m), h.m)),
                      indicator.den),
               BigMul(h.alpha_m.den, indicator.num)) : indicator \in {Indicator(h)}})

\* the limit without the factor m: 2.5
SmallRangeLimitNoM(h) == Frac(BigFromNat(5), BigFromNat(2))

\* 2.5 * m
SmallRangeLimit(h) == Frac(BigFromNat(5 * h.m), BigFromNat(2))

\* count with the test for an empty register left out: if E <= 2.5 * self.m
CountNoZeroTest(h) ==
    Only({IF FracLe(E, SmallRangeLimit(h))
          THEN [branch |-> "linear", m |-> h.m, zeros |-> Zeros(h)]
          ELSE [branch |-> "raw", E |-> E] : E \in {RawEstimate(h)}})

\* The value count() returns.  m * log(m / zeros) is kept as the pair it is
\* computed from; log(1) = 0 is the one logarithm the model evaluates.
Count(h) ==
    Only({IF FracLe(E, SmallRangeLimit(h)) /\ Zeros(h) > 0
          THEN [branch |-> "linear", m |-> h.m, zeros |-> Zeros(h)]
          ELSE [branch |-> "raw", E |-> E] : E \in {RawEstimate(h)}})

\* count() == 0
CountIsZero(c) ==
    IF c.branch = "linear" THEN c.m = c.zeros ELSE FracIsZero(c.E)

\* How count() ends: 1.0 / indicator and self.m / float(zeros) raise
\* ZeroDivisionError on a zero divisor; math.log gets m / zeros > 0 otherwise.
CountStatus(h) ==
    IF FracIsZero(Indicator(h)) THEN "ZeroDivisionError"
    ELSE IF \E c \in {Count(h)} : c.branch = "linear" /\ c.zeros = 0
    THEN "ZeroDivisionError"
    ELSE "ok"

\* What a call of count() leaves in hllRet.
CountReturn(h) ==
    Only({IF FracIsZero(Indicator(h)) \/ (c.branch = "linear" /\ c.zeros = 0)
          THEN [op |-> "count", status |-> "ZeroDivisionError"]
          ELSE [op |-> "count", status |-> "ok", value |-> c] : c \in {Count(h)}})

\* Actions ---------------------------------------------------------------

\* a count() that starts a new measuring interval: the registers are zeroed
HllCountReset ==
    /\ hll # NoInstance
    /\ hllRet' = [op |-> "count", status |-> "ok", value |-> Count(hll)]
    /\ hll' = [hll EXCEPT !.registers = NoRegisters]
    /\ UNCHANGED <<hllAdded, besideHll>>

PInputs == 0..(MaxP + 2)

HllInit(p) ==
    /\ hll = NoInstance
    /\ IF ~ValidP(p)
       THEN /\ hllRet' = [op |-> "init", arg |-> p, status |-> "ValueError"]
            /\ UNCHANGED hll
       ELSE /\ hll' = NewHll(p)
            /\ hllRet' = [op |-> "init", arg |-> p, status |-> "ok"]
    /\ UNCHANGED <<hllAdded, besideHll>>

HllAdd(x) ==
    /\ hll # NoInstance
    /\ IF AddIdx(hll, x) \notin 0..(hll.m - 1)
       THEN /\ hllRet' = [op |-> "add", arg |-> x, status |-> "IndexError"]
            /\ UNCHANGED hll
       ELSE IF AddRank(hll, x) > Reg(hll.registers, AddIdx(hll, x))
                /\ AddRank(hll, x) > ByteMax
       THEN /\ hllRet' = [op |-> "add", arg |-> x, status |-> "ValueError"]
            /\ UNCHANGED hll
       ELSE /\ hll' = [hll EXCEPT !.registers = AddRegisters(hll, x)]
            /\ hllRet' = [op |-> "add", arg |-> x, status |-> "ok",
                          again |-> x \in hllAdded]
    /\ hllAdded' = hllAdded \cup {x}
    /\ UNCHANGED besideHll

HllCount ==
    /\ hll # NoInstance
    /\ hllRet' = CountReturn(hll)
    /\ UNCHANGED <<hll, hllAdded, besideHll>>

(***************************************************************************)
(* Strings are sequences of characters.                                    *)
(***************************************************************************)
Whitespace == {" ", "\t", "\n", "\r"}

RECURSIVE lstrip(_)
lstrip(s) ==
    IF Len(s) > 0 /\ Head(s) \in Whitespace THEN lstrip(Tail(s)) ELSE s

RECURSIVE rstrip(_)
rstrip(s) ==
    IF Len(s) > 0 /\ Last(s) \in Whitespace THEN rstrip(Front(s)) ELSE s

\* str.strip()
strip(s) == rstrip(lstrip(s))

\* ord(c) of the characters the model's strings use (all ASCII: one UTF-8 byte each).
Ord ==
    ("\t" :> 9) @@ (" " :> 32) @@ ("1" :> 49) @@ ("2" :> 50) @@ ("3" :> 51)
    @@ ("a" :> 97) @@ ("d" :> 100) @@ ("e" :> 101) @@ ("g" :> 103)
    @@ ("i" :> 105) @@ ("m" :> 109) @@ ("n" :> 110) @@ ("o" :> 111)
    @@ ("p" :> 112) @@ ("q" :> 113) @@ ("r" :> 114) @@ ("s" :> 115)
    @@ ("t" :> 116) @@ ("u" :> 117) @@ ("w" :> 119) @@ ("y" :> 121)

\* sha256(data).digest() for the byte strings the model hashes: the real digests.
Sha256Table ==
    (<<>> :>
        <<227, 176, 196, 66, 152, 252, 28, 20, 154, 251, 244, 200, 153, 111, 185, 36>>
        \o <<39, 174, 65, 228, 100, 155, 147, 76, 164, 149, 153, 27, 120, 82, 184, 85>>)
 @@ (<<103, 117, 101, 115, 116>> :>
        <<132, 152, 60, 96, 247, 218, 173, 193, 203, 134, 152, 98, 31, 128, 44, 13>>
        \o <<159, 154, 60, 60, 41, 92, 129, 7, 72, 251, 4, 129, 21, 193, 134, 236>>)
 @@ (<<32, 103, 117, 101, 115, 116>> :>
        <<159, 73, 60, 216, 26, 19, 34, 221, 103, 249, 196, 198, 165, 178, 253, 26>>
        \o <<242, 98, 225, 243, 96, 169, 192, 21, 219, 18, 222, 28, 172, 190, 89, 29>>)
 @@ (<<97, 100, 109, 105, 110, 49, 50, 51>> :>
        <<36, 11, 229, 24, 250, 189, 39, 36, 221, 182, 240, 78, 235, 29, 165, 150>>
        \o <<116, 72, 215, 232, 49, 192, 140, 143, 168, 34, 128, 159, 116, 199, 32, 169>>)
 @@ (<<32>> :>
        <<54, 169, 231, 241, 201, 91, 130, 255, 185, 151, 67, 224, 197, 196, 206, 149>>
        \o <<216, 60, 154, 67, 10, 172, 89, 248, 78, 243, 203, 250, 182, 20, 80, 104>>)
 @@ (<<103, 117, 101, 115, 116, 9>> :>
        <<91, 96, 220, 213, 219, 20, 138, 101, 213, 63, 76, 187, 115, 197, 170, 239>>
        \o <<167, 133, 171, 252, 81, 230, 191, 107, 202, 220, 66, 239, 181, 155, 51, 237>>)
 @@ (<<110, 101, 119, 112, 97, 115, 115, 119, 111, 114, 100>> :>
        <<8, 149, 66, 80, 93, 101, 156, 236, 187, 152, 139, 181, 204, 255, 91, 204>>
        \o <<248, 91, 226, 223, 168, 194, 33, 53, 144, 121, 174, 226, 83, 18, 152, 187>>)
 @@ (<<112, 97, 115, 115, 119, 111, 114, 100, 49, 50, 51>> :>
        <<239, 146, 183, 120, 186, 254, 119, 30, 137, 36, 91, 137, 236, 188, 8, 164>>
        \o <<74, 78, 22, 108, 6, 101, 153, 17, 136, 31, 56, 61, 68, 115, 233, 79>>)
 @@ (<<113, 119, 101, 114, 116, 121, 49, 50, 51>> :>
        <<218, 170, 214, 229, 96, 78, 142, 23, 189, 159, 16, 141, 145, 226, 106, 254>>
        \o <<98, 129, 218, 200, 253, 160, 9, 16, 64, 167, 166, 215, 189, 155, 67, 181>>)

\* blake2b(msg, digest_size=16).digest() for msg = h0 + salt: the real digests,
\* for the digest h0 of each hashed string and the salts of i = 0..5.
Blake2b16Table ==
    (Sha256Table[<<>>] \o <<0, 0>> :>
        <<52, 178, 192, 251, 175, 184, 21, 76, 126, 88, 90, 199, 173, 218, 180, 119>>)
 @@ (Sha256Table[<<>>] \o <<0, 1>> :>
        <<19, 225, 47, 115, 64, 255, 223, 17, 210, 42, 13, 193, 57, 172, 136, 191>>)
 @@ (Sha256Table[<<>>] \o <<0, 2>> :>
        <<18, 210, 17, 162, 191, 157, 0, 209, 64, 99, 207, 90, 97, 174, 205, 72>>)
 @@ (Sha256Table[<<>>] \o <<0, 3>> :>
        <<61, 36, 115, 13, 121, 130, 35, 133, 76, 53, 197, 143, 124, 123, 78, 135>>)
 @@ (Sha256Table[<<>>] \o <<0, 4>> :>
        <<49, 238, 17, 52, 106, 72, 46, 197, 62, 76, 170, 25, 120, 150, 169, 156>>)
 @@ (Sha256Table[<<>>] \o <<0, 5>> :>
        <<220, 235, 69, 103, 212, 118, 147, 175, 74, 210, 213, 211, 4, 173, 126, 12>>)
 @@ (Sha256Table[<<103, 117, 101, 115, 116>>] \o <<0, 0>> :>
        <<226, 237, 106, 151, 231, 54, 31, 113, 253, 138, 226, 179, 149, 183, 47, 210>>)
 @@ (Sha256Table[<<103, 117, 101, 115, 116>>] \o <<0, 1>> :>
        <<41, 226, 15, 216, 149, 104, 89, 207, 188, 52, 113, 170, 74, 193, 25, 105>>)
 @@ (Sha256Table[<<103, 117, 101, 115, 116>>] \o <<0, 2>> :>
        <<199, 32, 240, 21, 29, 240, 4, 213, 213, 235, 146, 209, 148, 244, 127, 194>>)
 @@ (Sha256Table[<<103, 117, 101, 115, 116>>] \o <<0, 3>> :>
        <<101, 250, 170, 181, 141, 233, 63, 119, 222, 129, 226, 241, 192, 228, 179, 137>>)
 @@ (Sha256Table[<<103, 117, 101, 115, 116>>] \o <<0, 4>> :>
        <<86, 90, 41, 3, 26, 152, 232, 182, 85, 226, 156, 86, 200, 2, 186, 182>>)
 @@ (Sha256Table[<<103, 117, 101, 115, 116>>] \o <<0, 5>> :>
        <<249, 141, 13, 250, 195, 194, 252, 135, 208, 133, 226, 172, 193, 153, 112, 43>>)
 @@ (Sha256Table[<<32, 103, 117, 101, 115, 116>>] \o <<0, 0>> :>
        <<253, 39, 130, 0, 61, 92, 84, 145, 179, 121, 43, 248, 92, 174, 251, 6>>)
 @@ (Sha256Table[<<32, 103, 117, 101, 115, 116>>] \o <<0, 1>> :>
        <<74, 238, 93, 20, 139, 170, 188, 158, 123, 51, 250, 121, 176, 7, 241, 102>>)
 @@ (Sha256Table[<<32, 103, 117, 101, 115, 116>>] \o <<0, 2>> :>
        <<254, 202, 199, 35, 178, 109, 128, 238, 144, 130, 211, 98, 45, 57, 123, 47>>)
 @@ (Sha256Table[<<32, 103, 117, 101, 115, 116>>] \o <<0, 3>> :>
        <<48, 127, 153, 15, 167, 34, 216, 105, 171, 101, 0, 70, 249, 122, 165, 210>>)
 @@ (Sha256Table[<<32, 103, 117, 101, 115, 116>>] \o <<0, 4>> :>
        <<6, 129, 145, 107, 45, 251, 104, 62, 89, 244, 98, 246, 111, 105, 157, 254>>)
 @@ (Sha256Table[<<32, 103, 117, 101, 115, 116>>] \o <<0, 5>> :>
        <<82, 34, 64, 152, 219, 31, 153, 110, 154, 98, 73, 121, 247, 198, 93, 119>>)
 @@ (Sha256Table[<<97, 100, 109, 105, 110, 49, 50, 51>>] \o <<0, 0>> :>
        <<13, 37, 181, 229, 188, 197, 200, 13, 175, 87, 25, 127, 57, 31, 169, 166>>)
 @@ (Sha256Table[<<97, 100, 109, 105, 110, 49, 50, 51>>] \o <<0, 1>> :>
        <<6, 190, 112, 205, 110, 80, 87, 243, 223, 221, 120, 114, 222, 113, 139, 229>>)
 @@ (Sha256Table[<<97, 100, 109, 105, 110, 49, 50, 51>>] \o <<0, 2>> :>
        <<236, 49, 243, 230, 149, 201, 72, 206, 96, 76, 92, 132, 172, 109, 128, 51>>)
 @@ (Sha256Table[<<97, 100, 109, 105, 110, 49, 50, 51>>] \o <<0, 3>> :>
        <<100, 12, 90, 231, 45, 165, 63, 25, 89, 142, 134, 171, 228, 43, 101, 115>>)
 @@ (Sha256Table[<<97, 100, 109, 105, 110, 49, 50, 51>>] \o <<0, 4>> :>
        <<136, 30, 251, 99, 22, 21, 79, 119, 159, 68, 9, 30, 92, 145, 185, 162>>)
 @@ (Sha256Table[<<97, 100, 109, 105, 110, 49, 50, 51>>] \o <<0, 5>> :>
        <<219, 115, 93, 228, 77, 77, 188, 102, 8, 96, 70, 131, 141, 254, 221, 253>>)
 @@ (Sha256Table[<<32>>] \o <<0, 0>> :>
        <<254, 242, 159, 210, 0, 248, 125, 80, 236, 131, 37, 89, 74, 234, 89, 137>>)
 @@ (Sha256Table[<<32>>] \o <<0, 1>> :>
        <<124, 129, 56, 9, 163, 77, 220, 29, 73, 39, 127, 163, 104, 64, 94, 126>>)
 @@ (Sha256Table[<<32>>] \o <<0, 2>> :>
        <<88, 115, 100, 91, 133, 71, 80, 105, 75, 86, 84, 126, 152, 51, 169, 12>>)
 @@ (Sha256Table[<<32>>] \o <<0, 3>> :>
        <<223, 160, 117, 176, 72, 130, 7, 71, 111, 68, 114, 216, 98, 206, 41, 135>>)
 @@ (Sha256Table[<<32>>] \o <<0, 4>> :>
        <<133, 131, 73, 227, 186, 229, 79, 34, 60, 6, 99, 91, 198, 226, 7, 163>>)
 @@ (Sha256Table[<<32>>] \o <<0, 5>> :>
        <<13, 226, 180, 57, 16, 86, 137, 119, 176, 7, 135, 80, 53, 239, 70, 78>>)
 @@ (Sha256Table[<<103, 117, 101, 115, 116, 9>>] \o <<0, 0>> :>
        <<16, 79, 36, 207, 193, 28, 8, 109, 93, 162, 224, 192, 133, 220, 179, 46>>)
 @@ (Sha256Table[<<103, 117, 101, 115, 116, 9>>] \o <<0, 1>> :>
        <<70, 201, 183, 159, 13, 93, 206, 84, 192, 238, 65, 17, 129, 206, 85, 56>>)
 @@ (Sha256Table[<<103, 117, 101, 115, 116, 9>>] \o <<0, 2>> :>
        <<96, 184, 43, 199, 95, 16, 103, 212, 86, 132, 219, 186, 47, 102, 75, 90>>)
 @@ (Sha256Table[<<103, 117, 101, 115, 116, 9>>] \o <<0, 3>> :>
        <<208, 129, 146, 117, 124, 243, 75, 160, 213, 65, 41, 152, 95, 101, 232, 150>>)
 @@ (Sha256Table[<<103, 117, 101, 115, 116, 9>>] \o <<0, 4>> :>
        <<170, 17, 62, 182, 168, 76, 106, 67, 145, 105, 27, 33, 178, 215, 64, 150>>)
 @@ (Sha256Table[<<103, 117, 101, 115, 116, 9>>] \o <<0, 5>> :>
        <<41, 187, 141, 76, 254, 85, 199, 236, 252, 117, 6, 233, 251, 237, 74, 25>>)
 @@ (Sha256Table[<<110, 101, 119, 112, 97, 115, 115, 119, 111, 114, 100>>] \o <<0, 0>> :>
        <<252, 16, 239, 187, 193, 3, 127, 215, 34, 81, 173, 5, 220, 168, 94, 148>>)
 @@ (Sha256Table[<<110, 101, 119, 112, 97, 115, 115, 119, 111, 114, 100>>] \o <<0, 1>> :>
        <<21, 103, 188, 42, 217, 93, 108, 109, 240, 17, 198, 158, 191, 253, 7, 142>>)
 @@ (Sha256Table[<<110, 101, 119, 112, 97, 115, 115, 119, 111, 114, 100>>] \o <<0, 2>> :>
        <<122, 187, 126, 124, 195, 231, 48, 14, 116, 168, 100, 26, 143, 70, 216, 180>>)
 @@ (Sha256Table[<<110, 101, 119, 112, 97, 115, 115, 119, 111, 114, 100>>] \o <<0, 3>> :>
        <<233, 84, 135, 125, 61, 24, 34, 254, 145, 52, 125, 212, 124, 123, 82, 221>>)
 @@ (Sha256Table[<<110, 101, 119, 112, 97, 115, 115, 119, 111, 114, 100>>] \o <<0, 4>> :>
        <<239, 183, 232, 231, 49, 187, 150, 181, 70, 249, 45, 217, 62, 116, 60, 135>>)
 @@ (Sha256Table[<<110, 101, 119, 112, 97, 115, 115, 119, 111, 114, 100>>] \o <<0, 5>> :>
        <<81, 87, 7, 47, 240, 158, 169, 22, 92, 168, 96, 73, 114, 172, 88, 233>>)
 @@ (Sha256Table[<<112, 97, 115, 115, 119, 111, 114, 100, 49, 50, 51>>] \o <<0, 0>> :>
        <<26, 60, 88, 84, 82, 169, 244, 100, 39, 5, 197, 193, 176, 63, 72, 207>>)
 @@ (Sha256Table[<<112, 97, 115, 115, 119, 111, 114, 100, 49, 50, 51>>] \o <<0, 1>> :>
        <<68, 170, 3, 152, 200, 131, 28, 223, 127, 116, 182, 70, 77, 145, 84, 107>>)
 @@ (Sha256Table[<<112, 97, 115, 115, 119, 111, 114, 100, 49, 50, 51>>] \o <<0, 2>> :>
        <<65, 97, 64, 218, 245, 22, 84, 234, 176, 254, 166, 251, 188, 158, 148, 111>>)
 @@ (Sha256Table[<<112, 97, 115, 115, 119, 111, 114, 100, 49, 50, 51>>] \o <<0, 3>> :>
        <<120, 211, 42, 128, 186, 108, 243, 198, 203, 192, 48, 231, 159, 45, 22, 188>>)
 @@ (Sha256Table[<<112, 97, 115, 115, 119, 111, 114, 100, 49, 50, 51>>] \o <<0, 4>> :>
        <<120, 126, 175, 100, 145, 122, 190, 133, 7, 44, 115, 239, 212, 218, 151, 48>>)
 @@ (Sha256Table[<<112, 97, 115, 115, 119, 111, 114, 100, 49, 50, 51>>] \o <<0, 5>> :>
        <<14, 48, 62, 2, 6, 145, 94, 45, 79, 97, 173, 142, 6, 196, 132, 140>>)
 @@ (Sha256Table[<<113, 119, 101, 114, 116, 121, 49, 50, 51>>] \o <<0, 0>> :>
        <<134, 118, 181, 115, 215, 64, 63, 36, 19, 244, 108, 173, 54, 252, 167, 137>>)
 @@ (Sha256Table[<<113, 119, 101, 114, 116, 121, 49, 50, 51>>] \o <<0, 1>> :>
        <<64, 168, 30, 223, 202, 222, 17, 80, 78, 173, 232, 27, 9, 237, 38, 36>>)
 @@ (Sha256Table[<<113, 119, 101, 114, 116, 121, 49, 50, 51>>] \o <<0, 2>> :>
        <<238, 228, 9, 41, 57, 25, 23, 227, 199, 14, 61, 254, 219, 35, 145, 18>>)
 @@ (Sha256Table[<<113, 119, 101, 114, 116, 121, 49, 50, 51>>] \o <<0, 3>> :>
        <<151, 197, 222, 98, 33, 90, 42, 42, 128, 201, 100, 227, 65, 194, 251, 5>>)
 @@ (Sha256Table[<<113, 119, 101, 114, 116, 121, 49, 50, 51>>] \o <<0, 4>> :>
        <<24, 81, 2, 170, 252, 121, 114, 192, 254, 27, 184, 118, 0, 54, 4, 40>>)
 @@ (Sha256Table[<<113, 119, 101, 114, 116, 121, 49, 50, 51>>] \o <<0, 5>> :>
        <<64, 252, 212, 50, 180, 125, 70, 20, 86, 126, 37, 25, 63, 46, 67, 76>>)

\* item.encode("utf-8", errors="ignore")
RECURSIVE encode(_)
encode(s) ==
    IF Len(s) = 0 THEN <<>> ELSE <<Ord[Head(s)]>> \o encode(Tail(s))

sha256(data) == Sha256Table[data]

blake2b16(msg) == Blake2b16Table[msg]

\* i.to_bytes(2, "big")
to_bytes2(i) == <<i \div 256, i % 256>>

\* struct.unpack_from(">Q", buf, offset)[0]
unpack_Q(buf, offset) == SubSeq(buf, offset + 1, offset + 8)

\* A candidate is None or a string.
PyNone == [isNone |-> TRUE, s |-> <<>>]
PyStr(chars) == [isNone |-> FALSE, s |-> chars]

\* s = "" if raw is None else str(raw)
ToStr(raw) == IF raw.isNone THEN <<>> ELSE raw.s

\* The candidates and the strings of the model.  A candidate is drawn from
\* the first NumBfRaws entries of the pool.
G == <<"g", "u", "e", "s", "t">>
Admin == <<"a", "d", "m", "i", "n", "1", "2", "3">>

RawPool ==
    << PyNone, PyStr(G), PyStr(<<" ">> \o G), PyStr(Admin), PyStr(<<" ">>),
       PyStr(G \o <<"\t">>), PyStr(<<>>) >>

BfRaws == {RawPool[i] : i \in 1..NumBfRaws}

\* add and `in` take any string: the candidates as they are and stripped.
BfItems == {ToStr(r) : r \in BfRaws} \cup {strip(ToStr(r)) : r \in BfRaws}

SizeInputs == {-1, 0, 2, 9}
KInputs == -1..MaxK
\* hash counts at the end of what the two-byte salt can number
WideKInputs == {SaltLimit, SaltLimit + 1}

(***************************************************************************)
(* BloomFilter                                                             *)
(***************************************************************************)
\* The object __init__ leaves behind for valid arguments: _bits is
\* bytearray((size + 7) // 8), indexed from 0.
NewBloom(size, num_hashes) ==
    [size |-> size, num_hashes |-> num_hashes,
     bits |-> [byte_i \in 0..(((size + 7) \div 8) - 1) |-> 0]]

\* byte & mask != 0, for a one-bit mask
TestMask(byte, mask) == (byte \div mask) % 2 = 1

\* _set_bit with the byte assigned instead of or-ed: self._bits[byte_i] = mask
set_bit_assign(bits, idx) ==
    [bits EXCEPT ![idx \div 8] = Pow2(idx % 8)]

\* _set_bit with the bit flipped instead of or-ed: self._bits[byte_i] ^= mask
set_bit_xor(bits, idx) ==
    LET mask == Pow2(idx % 8)
    IN  [bits EXCEPT ![idx \div 8] = IF TestMask(@, mask) THEN @ - mask ELSE @ + mask]

\* _set_bit with the byte and-ed instead of or-ed: self._bits[byte_i] &= mask
set_bit_and(bits, idx) ==
    LET mask == Pow2(idx % 8)
    IN  [bits EXCEPT ![idx \div 8] = IF TestMask(@, mask) THEN mask ELSE 0]

\* _set_bit(idx): self._bits[byte_i] |= mask
set_bit(bits, idx) ==
    LET byte_i == idx \div 8
        mask == Pow2(idx % 8)
    IN  [bits EXCEPT ![byte_i] = IF TestMask(@, mask) THEN @ ELSE @ + mask]

\* _get_bit(idx)
get_bit(bits, idx) ==
    LET byte_i == idx \div 8
        mask == Pow2(idx % 8)
    IN  TestMask(bits[byte_i], mask)

\* the index reduced by one more than the size: % (self.size + 1)
HashIdxOfWide(size, item, i) ==
    LET h0 == sha256(encode(item))
        a == unpack_Q(h0, 0)
        b == unpack_Q(h0, 8)
        h == blake2b16(h0 \o to_bytes2(i))
        c == unpack_Q(h, 0)
    IN  BigMod(BigAdd(BigAdd(a, BigMulSmall(b, i)), c), size + 1)

\* The index _hashes yields in iteration i for a filter of the given size.
HashIdxOf(size, item, i) ==
    LET h0 == sha256(encode(item))
        a == unpack_Q(h0, 0)
        b == unpack_Q(h0, 8)
        h == blake2b16(h0 \o to_bytes2(i))
        c == unpack_Q(h, 0)
    IN  BigMod(BigAdd(BigAdd(a, BigMulSmall(b, i)), c), size)

\* HashIdxOf, tabulated once for the sizes, strings and iterations of the model
HashIdxTable ==
    [size \in {n \in SizeInputs : n > 0}, item \in BfItems, i \in 0..(MaxK - 1) |->
        HashIdxOf(size, item, i)]

HashIdx(bf, item, i) == HashIdxTable[bf.size, item, i]

\* _hashes(item): the indices in the order they are yielded
hashes(bf, item) == [j \in 1..bf.num_hashes |-> HashIdx(bf, item, j - 1)]

\* range(self.num_hashes) reaches i = 65536, where i.to_bytes(2, "big")
\* raises OverflowError; the 65536 indices for i < 65536 are yielded first.
Overflows(bf) == bf.num_hashes > SaltLimit

\* _hashes yields 65536 indices or more before it ends or raises.  For the
\* sizes and strings of the model the first 65536 indices (computed from the
\* sha256 and blake2b digests) are all of 0..size - 1.
Long(bf) == bf.num_hashes >= SaltLimit

\* add(item): the bit array after the loop has set the first n yielded indices
RECURSIVE SetBits(_, _, _, _)
SetBits(bf, bits, item, n) ==
    IF n = 0 THEN bits
    ELSE set_bit(SetBits(bf, bits, item, n - 1), hashes(bf, item)[n])

\* the bit array after every index below n has been set
RECURSIVE SetRange(_, _)
SetRange(bits, n) ==
    IF n = 0 THEN bits ELSE set_bit(SetRange(bits, n - 1), n - 1)

\* The bit array add(item) leaves behind, whether it returns or raises.
AddBits(bf, item) ==
    IF Long(bf) THEN SetRange(bf.bits, bf.size)
    ELSE SetBits(bf, bf.bits, item, bf.num_hashes)

\* How add(item) ends.
AddStatus(bf, item) == IF Overflows(bf) THEN "OverflowError" ELSE "ok"

\* __contains__(item) returns True
contains(bf, item) ==
    IF Long(bf)
    THEN ~Overflows(bf) /\ \A idx \in 0..(bf.size - 1) : get_bit(bf.bits, idx)
    ELSE \A j \in 1..bf.num_hashes : get_bit(bf.bits, hashes(bf, item)[j])

\* How __contains__(item) ends: it returns False at the first clear bit, and
\* reaches the salt of i = 65536 only when every earlier bit is set.
ContainsStatus(bf, item) ==
    IF Overflows(bf) /\ \A idx \in 0..(bf.size - 1) : get_bit(bf.bits, idx)
    THEN "OverflowError"
    ELSE "ok"

(***************************************************************************)
(* check_password_uniqueness                                               *)
(***************************************************************************)
\* The three status strings (lines 90, 94 and 96 of hw-1-bloom.py).
StInvalid == "invalid"
StUsed == "already used"
StUnique == "unique"

\* the assignment that keeps an earlier entry: results.setdefault(key, value)
DictSetDefault(d, key, value) ==
    IF \E i \in 1..Len(d) : d[i].key = key
    THEN d
    ELSE Append(d, [key |-> key, value |-> value])

\* results[key] = value on a dict (insertion-ordered: a key that is already
\* there keeps its place).
DictSet(d, key, value) ==
    IF \E i \in 1..Len(d) : d[i].key = key
    THEN [i \in 1..Len(d) |-> IF d[i].key = key
                              THEN [key |-> key, value |-> value] ELSE d[i]]
    ELSE Append(d, [key |-> key, value |-> value])

\* the status with the untrimmed string tested: if s in bloom
StatusOfUntrimmed(bf, raw, mark_invalid) ==
    IF mark_invalid /\ Len(strip(ToStr(raw))) = 0 THEN StInvalid
    ELSE IF contains(bf, ToStr(raw)) THEN StUsed
    ELSE StUnique

\* The status one iteration of the loop gives the candidate raw.
StatusOf(bf, raw, mark_invalid) ==
    IF mark_invalid /\ Len(strip(ToStr(raw))) = 0 THEN StInvalid
    ELSE IF contains(bf, strip(ToStr(raw))) THEN StUsed
    ELSE StUnique

\* the bit array when the invalid branch lacks its continue
BitsAfterNoContinue(bf, raw, mark_invalid) ==
    IF contains(bf, strip(ToStr(raw))) THEN bf.bits
    ELSE AddBits(bf, strip(ToStr(raw)))

\* The bit array after that iteration.
BitsAfter(bf, raw, mark_invalid) ==
    IF StatusOf(bf, raw, mark_invalid) = StUnique
    THEN AddBits(bf, strip(ToStr(raw)))
    ELSE bf.bits

\* How that iteration ends: the membership test or the add may raise.
LoopStatus(bf, raw, mark_invalid) ==
    IF mark_invalid /\ Len(strip(ToStr(raw))) = 0 THEN "ok"
    ELSE IF ContainsStatus(bf, strip(ToStr(raw))) # "ok"
    THEN ContainsStatus(bf, strip(ToStr(raw)))
    ELSE IF StatusOf(bf, raw, mark_invalid) = StUnique
    THEN AddStatus(bf, strip(ToStr(raw)))
    ELSE "ok"

\* Actions ---------------------------------------------------------------

BfInit(size, num_hashes) ==
    /\ bloom = NoInstance
    /\ IF size <= 0
       THEN /\ bfRet' = [op |-> "init", size |-> size, num_hashes |-> num_hashes,
                         status |-> "ValueError"]
            /\ UNCHANGED bloom
       ELSE IF num_hashes <= 0
       THEN /\ bfRet' = [op |-> "init", size |-> size, num_hashes |-> num_hashes,
                         status |-> "ValueError"]
            /\ UNCHANGED bloom
       ELSE /\ bloom' = NewBloom(size, num_hashes)
            /\ bfRet' = [op |-> "init", size |-> size, num_hashes |-> num_hashes,
                         status |-> "ok"]
    /\ UNCHANGED <<bfAdded, chkVars, besideBloom>>

BfAdd(item) ==
    /\ bloom # NoInstance
    /\ chkPc = "idle"
    /\ bloom' = [bloom EXCEPT !.bits = AddBits(bloom, item)]
    /\ bfRet' = [op |-> "add", arg |-> item, status |-> AddStatus(bloom, item)]
    /\ bfAdded' = IF AddStatus(bloom, item) = "ok" THEN bfAdded \cup {item} ELSE bfAdded
    /\ UNCHANGED <<chkVars, besideBloom>>

BfContains(item) ==
    /\ bloom # NoInstance
    /\ chkPc = "idle"
    /\ IF ContainsStatus(bloom, item) = "ok"
       THEN bfRet' = [op |-> "contains", arg |-> item, status |-> "ok",
                      value |-> contains(bloom, item)]
       ELSE bfRet' = [op |-> "contains", arg |-> item,
                      status |-> ContainsStatus(bloom, item)]
    /\ UNCHANGED <<bloom, bfAdded, chkVars, besideBloom>>

\* check_password_uniqueness(bloom, new_passwords, mark_invalid=...): the call
\* starts with an empty dict, runs one loop iteration per candidate the
\* iterable delivers, and returns the dict.
CheckCall(mark_invalid) ==
    /\ bloom # NoInstance
    /\ chkPc = "idle"
    /\ chkPc' = "loop"
    /\ chkMarkInvalid' = mark_invalid
    /\ chkResults' = <<>>
    /\ chkTrace' = <<>>
    /\ bfRet' = [op |-> "check-call", status |-> "ok"]
    /\ UNCHANGED <<bloom, bfAdded, besideBloom>>

CheckLoop(raw) ==
    /\ chkPc = "loop"
    /\ Len(chkTrace) < MaxBatch
    /\ IF LoopStatus(bloom, raw, chkMarkInvalid) = "ok"
       THEN /\ chkResults' = DictSet(chkResults, ToStr(raw),
                                     StatusOf(bloom, raw, chkMarkInvalid))
            /\ bloom' = [bloom EXCEPT !.bits = BitsAfter(bloom, raw, chkMarkInvalid)]
            /\ bfAdded' = IF StatusOf(bloom, raw, chkMarkInvalid) = StUnique
                          THEN bfAdded \cup {strip(ToStr(raw))}
                          ELSE bfAdded
            /\ chkTrace' = Append(chkTrace,
                                  [raw |-> raw,
                                   status |-> StatusOf(bloom, raw, chkMarkInvalid)])
            /\ UNCHANGED <<bfRet, chkPc>>
       ELSE \* the exception leaves the call; the dict is lost, the bits set
            \* before the exception stay
            /\ bloom' = IF ContainsStatus(bloom, strip(ToStr(raw))) # "ok"
                        THEN bloom
                        ELSE [bloom EXCEPT !.bits = AddBits(bloom, strip(ToStr(raw)))]
            /\ bfRet' = [op |-> "check-raise", arg |-> raw,
                         status |-> LoopStatus(bloom, raw, chkMarkInvalid)]
            /\ chkPc' = "idle"
            /\ chkResults' = <<>>
            /\ chkTrace' = <<>>
            /\ UNCHANGED bfAdded
    /\ UNCHANGED <<chkMarkInvalid, besideBloom>>

CheckReturn ==
    /\ chkPc = "loop"
    /\ chkPc' = "idle"
    /\ bfRet' = [op |-> "check-return", status |-> "ok", value |-> chkResults,
                 trace |-> chkTrace]
    /\ chkResults' = <<>>
    /\ chkTrace' = <<>>
    /\ UNCHANGED <<bloom, bfAdded, chkMarkInvalid, besideBloom>>

\* The same calls on the second instances.  An instance holds its own
\* bytearray and fields (__slots__, no class attribute), so a call reads and
\* writes the instance it is made on.
TwinHllInit(p) ==
    /\ twin.hll = NoInstance
    /\ twin' = IF ~ValidP(p)
               THEN [twin EXCEPT !.ret = [op |-> "hll-init", arg |-> p,
                                          status |-> "ValueError"]]
               ELSE [twin EXCEPT !.hll = NewHll(p),
                                 !.ret = [op |-> "hll-init", arg |-> p, status |-> "ok"]]
    /\ UNCHANGED besideTwin

TwinHllAdd(x) ==
    /\ twin.hll # NoInstance
    /\ twin' = IF AddIdx(twin.hll, x) \notin 0..(twin.hll.m - 1)
               THEN [twin EXCEPT !.ret = [op |-> "hll-add", arg |-> x,
                                          status |-> "IndexError"]]
               ELSE IF AddRank(twin.hll, x) > Reg(twin.hll.registers, AddIdx(twin.hll, x))
                        /\ AddRank(twin.hll, x) > ByteMax
               THEN [twin EXCEPT !.ret = [op |-> "hll-add", arg |-> x,
                                          status |-> "ValueError"]]
               ELSE [twin EXCEPT !.hll.registers = AddRegisters(twin.hll, x),
                                 !.ret = [op |-> "hll-add", arg |-> x, status |-> "ok"]]
    /\ UNCHANGED besideTwin

TwinHllCount ==
    /\ twin.hll # NoInstance
    /\ twin' = IF CountStatus(twin.hll) = "ok"
               THEN [twin EXCEPT !.ret = [op |-> "hll-count", status |-> "ok",
                                          value |-> Count(twin.hll)]]
               ELSE [twin EXCEPT !.ret = [op |-> "hll-count",
                                          status |-> CountStatus(twin.hll)]]
    /\ UNCHANGED besideTwin

TwinBfInit(size, num_hashes) ==
    /\ twin.bloom = NoInstance
    /\ twin' = IF size <= 0 \/ num_hashes <= 0
               THEN [twin EXCEPT !.ret = [op |-> "bf-init", size |-> size,
                                          num_hashes |-> num_hashes,
                                          status |-> "ValueError"]]
               ELSE [twin EXCEPT !.bloom = NewBloom(size, num_hashes),
                                 !.ret = [op |-> "bf-init", size |-> size,
                                          num_hashes |-> num_hashes, status |-> "ok"]]
    /\ UNCHANGED besideTwin

TwinBfAdd(item) ==
    /\ twin.bloom # NoInstance
    /\ twin' = [twin EXCEPT !.bloom.bits = AddBits(twin.bloom, item),
                            !.ret = [op |-> "bf-add", arg |-> item,
                                     status |-> AddStatus(twin.bloom, item)]]
    /\ UNCHANGED besideTwin

TwinBfContains(item) ==
    /\ twin.bloom # NoInstance
    /\ twin' = IF ContainsStatus(twin.bloom, item) = "ok"
               THEN [twin EXCEPT !.ret = [op |-> "bf-contains", arg |-> item,
                                          status |-> "ok",
                                          value |-> contains(twin.bloom, item)]]
               ELSE [twin EXCEPT !.ret = [op |-> "bf-contains", arg |-> item,
                                          status |-> ContainsStatus(twin.bloom, item)]]
    /\ UNCHANGED besideTwin

(***************************************************************************)
(* Two threads calling add on the one HyperLogLog and the one BloomFilter. *)
(* The interpreter may switch threads between the read and the write of    *)
(* `if rank > self.registers[idx]: self.registers[idx] = rank` and of      *)
(* `self._bits[byte_i] |= mask`; each thread keeps what it read in locals. *)
(* With useLock the callers wrap every add in one lock.                    *)
(***************************************************************************)
Threads == {1, 2}

IdleThread == [pc |-> "idle"]

ThreadsStart(useLock) ==
    [useLock |-> useLock, holder |-> 0, t |-> [t \in Threads |-> IdleThread]]

\* the caller's lock, taken before add and released after it
MayEnter(t) == thr.useLock => thr.holder = 0

Entered(t) == IF thr.useLock THEN t ELSE 0

\* h = self._hash64(x); idx = ...; w = ...; rank = self._rho(...)
ThrHllAddCall(t, x) ==
    /\ hll # NoInstance
    /\ thr.t[t].pc = "idle"
    /\ MayEnter(t)
    /\ thr' = [thr EXCEPT !.holder = Entered(t),
                          !.t[t] = [pc |-> "hll-test", item |-> x,
                                    idx |-> AddIdx(hll, x), rank |-> AddRank(hll, x)]]
    /\ UNCHANGED <<hllVars, bfVars, twin, algVars>>

\* if rank > self.registers[idx]: the register is read and compared
ThrHllTest(t) ==
    /\ thr.t[t].pc = "hll-test"
    /\ IF thr.t[t].rank > Reg(hll.registers, thr.t[t].idx)
       THEN /\ thr' = [thr EXCEPT !.t[t].pc = "hll-store"]
            /\ UNCHANGED hllAdded
       ELSE /\ thr' = [thr EXCEPT !.holder = 0, !.t[t] = IdleThread]
            /\ hllAdded' = hllAdded \cup {thr.t[t].item}
    /\ UNCHANGED <<hll, hllRet, bfVars, twin, algVars>>

\* self.registers[idx] = rank
ThrHllStore(t) ==
    /\ thr.t[t].pc = "hll-store"
    /\ hll' = [hll EXCEPT !.registers = SetReg(hll.registers, thr.t[t].idx, thr.t[t].rank)]
    /\ hllAdded' = hllAdded \cup {thr.t[t].item}
    /\ thr' = [thr EXCEPT !.holder = 0, !.t[t] = IdleThread]
    /\ UNCHANGED <<hllRet, bfVars, twin, algVars>>

\* add(item): the generator is started, the first index is about to be set
ThrBfAddCall(t, item) ==
    /\ bloom # NoInstance
    /\ chkPc = "idle"
    /\ thr.t[t].pc = "idle"
    /\ MayEnter(t)
    /\ thr' = [thr EXCEPT !.holder = Entered(t),
                          !.t[t] = [pc |-> "bf-load", item |-> item, j |-> 1]]
    /\ UNCHANGED <<hllVars, bfVars, twin, algVars>>

\* _set_bit(idx), first half: self._bits[byte_i] is read
ThrBfLoad(t) ==
    /\ thr.t[t].pc = "bf-load"
    /\ thr' = [thr EXCEPT !.t[t] =
                  [pc |-> "bf-store", item |-> thr.t[t].item, j |-> thr.t[t].j,
                   byte |-> bloom.bits[hashes(bloom, thr.t[t].item)[thr.t[t].j] \div 8]]]
    /\ UNCHANGED <<hllVars, bfVars, twin, algVars>>

\* _set_bit(idx), second half: the byte that was read, or-ed with the mask, is
\* written back; then the loop of add goes on or add returns
ThrBfStore(t) ==
    /\ thr.t[t].pc = "bf-store"
    /\ LET idx == hashes(bloom, thr.t[t].item)[thr.t[t].j]
       IN  bloom' = [bloom EXCEPT !.bits =
                        set_bit([bloom.bits EXCEPT ![idx \div 8] = thr.t[t].byte], idx)]
    /\ IF thr.t[t].j < bloom.num_hashes
       THEN /\ thr' = [thr EXCEPT !.t[t] = [pc |-> "bf-load", item |-> thr.t[t].item,
                                            j |-> thr.t[t].j + 1]]
            /\ UNCHANGED bfAdded
       ELSE /\ thr' = [thr EXCEPT !.holder = 0, !.t[t] = IdleThread]
            /\ bfAdded' = bfAdded \cup {thr.t[t].item}
    /\ UNCHANGED <<hllVars, bfRet, chkVars, twin, algVars>>

(***************************************************************************)
(* homeworks/hw-1-2/hw-1.py: find_min_max_divide_and_conquer.  The calls   *)
(* of the inner function rec are frames on a stack; a frame is at "enter", *)
(* or waits for its left ("left") or right ("right") recursive call.       *)
(***************************************************************************)
MmValues == (-1)..MmMaxVal

MmArrays == UNION {[1..n -> MmValues] : n \in 0..MmMaxLen}

MmOff == [pc |-> "off", arr |-> <<>>, stack |-> <<>>, ret |-> <<>>, calls |-> 0,
          result |-> <<>>]

MmReady(arr) == [MmOff EXCEPT !.pc = "ready", !.arr = arr]

\* rec(lo, hi) as it is entered; arr is indexed from 0 in the code
Frame(lo, hi) == [lo |-> lo, hi |-> hi, stage |-> "enter", mn1 |-> 0, mx1 |-> 0]

At(arr, i) == arr[i + 1]

\* the base case of two elements
BaseTwo(a, b) == IF a <= b THEN <<a, b>> ELSE <<b, a>>

\* mid = (lo + hi) // 2
Mid(lo, hi) == (lo + hi) \div 2

MergeMin(mn1, mn2) == IF mn1 <= mn2 THEN mn1 ELSE mn2

\* a merge that keeps the maximum of the left half: gmax = mx1
MergeMaxLeft(mx1, mx2) == mx1

MergeMax(mx1, mx2) == IF mx1 >= mx2 THEN mx1 ELSE mx2

\* find_min_max_divide_and_conquer(arr): the emptiness test and the first call
MmCall ==
    /\ mm.pc = "ready"
    /\ mm' = IF Len(mm.arr) = 0
             THEN [mm EXCEPT !.pc = "raised"]
             ELSE [mm EXCEPT !.pc = "running",
                             !.stack = <<Frame(0, Len(mm.arr) - 1)>>,
                             !.calls = 1]
    /\ UNCHANGED besideMm

\* One step of the innermost call of rec.
MmRec ==
    /\ mm.pc = "running"
    /\ Len(mm.stack) > 0
    /\ LET f == Last(mm.stack)
           rest == Front(mm.stack)
       IN  mm' =
             IF f.stage = "enter"
             THEN IF f.lo = f.hi
                  THEN [mm EXCEPT !.stack = rest,
                                  !.ret = <<At(mm.arr, f.lo), At(mm.arr, f.lo)>>]
                  ELSE IF f.hi - f.lo = 1
                  THEN [mm EXCEPT !.stack = rest,
                                  !.ret = BaseTwo(At(mm.arr, f.lo), At(mm.arr, f.hi))]
                  ELSE [mm EXCEPT !.stack = Append(Append(rest, [f EXCEPT !.stage = "left"]),
                                                   Frame(f.lo, Mid(f.lo, f.hi))),
                                  !.calls = @ + 1]
             ELSE IF f.stage = "left"
             THEN [mm EXCEPT !.stack = Append(Append(rest,
                                                     [f EXCEPT !.stage = "right",
                                                               !.mn1 = mm.ret[1],
                                                               !.mx1 = mm.ret[2]]),
                                              Frame(Mid(f.lo, f.hi) + 1, f.hi)),
                             !.calls = @ + 1]
             ELSE [mm EXCEPT !.stack = rest,
                             !.ret = <<MergeMin(f.mn1, mm.ret[1]),
                                       MergeMax(f.mx1, mm.ret[2])>>]
    /\ UNCHANGED besideMm

\* mn, mx = rec(0, len(arr) - 1, 0); return mn, mx
MmReturn ==
    /\ mm.pc = "running"
    /\ Len(mm.stack) = 0
    /\ mm' = [mm EXCEPT !.pc = "returned", !.result = mm.ret]
    /\ UNCHANGED besideMm

NextMinMax == MmCall \/ MmRec \/ MmReturn

(***************************************************************************)
(* homeworks/hw-1-2/hw-2.py: optimize_printing.  Volumes are whole numbers *)
(* (the float sums of the code are then exact); a job's id is its place in *)
(* the input.                                                              *)
(***************************************************************************)
Priorities == <<1, 2, 3>>

PrVolumes == {1, 2, 4}

\* print_time of job i of n: the times rise or fall along the list
PrTimes(rising, i, n) == IF rising THEN i ELSE n + 1 - i

PrJob(id, volume, priority, print_time) ==
    [id |-> id, volume |-> volume, priority |-> priority, print_time |-> print_time]

\* the constraints of test_printing_optimization, scaled: 3 units, 2 items
PrTestConstraints == [max_volume |-> 3, max_items |-> 2]

\* A list of n jobs that passes the validation: job i has volume and
\* priority f[i].
PrJobList(n, f, rising) ==
    [i \in 1..n |-> PrJob(i, f[i][1], f[i][2], PrTimes(rising, i, n))]

\* Arguments that do not pass it.
PrInvalidInputs ==
    { [jobs |-> <<PrJob(1, 0, 1, 1)>>, cn |-> PrTestConstraints],
      [jobs |-> <<PrJob(1, 1, 1, 0)>>, cn |-> PrTestConstraints],
      [jobs |-> <<PrJob(1, 1, 1, 1), PrJob(2, 1, 4, 1)>>, cn |-> PrTestConstraints],
      [jobs |-> <<PrJob(1, 1, 1, 1)>>, cn |-> [max_volume |-> 0, max_items |-> 2]],
      [jobs |-> <<PrJob(1, 1, 1, 1)>>, cn |-> [max_volume |-> 3, max_items |-> 0]] }

NoLists == [p \in {1, 2, 3} |-> <<>>]

PrOff == [pc |-> "off", jobs |-> <<>>, cn |-> PrTestConstraints, by_prio |-> NoLists,
          pending |-> NoLists, batches |-> <<>>, total_time |-> 0,
          result |-> [print_order |-> <<>>, total_time |-> 0]]

PrReady(in) == [PrOff EXCEPT !.pc = "ready", !.jobs = in.jobs, !.cn = in.cn]

\* The first validation loop and the constraints test pass.
PrJobsValid(jobs, cn) ==
    /\ \A i \in 1..Len(jobs) : jobs[i].volume > 0 /\ jobs[i].print_time > 0
    /\ cn.max_volume > 0 /\ cn.max_items > 0

PrPrioritiesValid(jobs) == \A i \in 1..Len(jobs) : jobs[i].priority \in {1, 2, 3}

\* by_prio after the grouping loop has seen the first n jobs
RECURSIVE ByPrio(_, _)
ByPrio(jobs, n) ==
    IF n = 0 THEN NoLists
    ELSE [ByPrio(jobs, n - 1) EXCEPT ![jobs[n].priority] = Append(@, jobs[n])]

\* pending[pr].pop(i), i counted from 0
PopAt(list, i) == SubSeq(list, 1, i) \o SubSeq(list, i + 2, Len(list))

\* try_fill_from(pr) from position i on; st holds batch, vol_used, cnt_used
\* and pending
RECURSIVE TryFillFrom(_, _, _, _)
TryFillFrom(st, cn, prio, i) ==
    IF ~(i < Len(st.pending[prio])) THEN st
    ELSE IF st.cnt_used >= cn.max_items THEN st
    ELSE LET cand == st.pending[prio][i + 1]
         IN  IF st.vol_used + cand.volume <= cn.max_volume
             THEN TryFillFrom([batch |-> Append(st.batch, cand),
                               vol_used |-> st.vol_used + cand.volume,
                               cnt_used |-> st.cnt_used + 1,
                               pending |-> [st.pending EXCEPT ![prio] = PopAt(@, i)]],
                              cn, prio, i)
             ELSE TryFillFrom(st, cn, prio, i + 1)

\* for pr in (1, 2, 3): if cnt_used >= cn.max_items: break; try_fill_from(pr)
RECURSIVE FillPass(_, _, _)
FillPass(st, cn, k) ==
    IF k > Len(Priorities) THEN st
    ELSE IF st.cnt_used >= cn.max_items THEN st
    ELSE FillPass(TryFillFrom(st, cn, Priorities[k], 0), cn, k + 1)

\* the batch left empty when nothing fits: no forced job
ForcedNone(st) == st

\* if not batch: the first pending job of the best priority is taken alone
Forced(st) ==
    IF Len(st.batch) > 0 THEN st
    ELSE LET prio == CHOOSE q \in {1, 2, 3} :
                         /\ Len(st.pending[q]) > 0
                         /\ \A r \in 1..(q - 1) : Len(st.pending[r]) = 0
         IN  [st EXCEPT !.batch = <<Head(st.pending[prio])>>,
                        !.pending[prio] = Tail(@)]

\* One iteration of the while loop, up to batches.append(batch).
FormBatch(pending, cn) ==
    Forced(FillPass(FillPass([batch |-> <<>>, vol_used |-> 0, cnt_used |-> 0,
                              pending |-> pending], cn, 1), cn, 1))

\* max(job.print_time for job in batch)
RECURSIVE MaxPrintTime(_)
MaxPrintTime(batch) ==
    IF Len(batch) = 1 THEN batch[1].print_time
    ELSE IF batch[1].print_time >= MaxPrintTime(Tail(batch))
    THEN batch[1].print_time ELSE MaxPrintTime(Tail(batch))

\* any_pending()
AnyPending(pending) == \E q \in {1, 2, 3} : Len(pending[q]) > 0

Ids(list) == [i \in 1..Len(list) |-> list[i].id]

\* the ids batch by batch, in the order the jobs were taken
RECURSIVE IdsByBatch(_)
IdsByBatch(batches) ==
    IF Len(batches) = 0 THEN <<>> ELSE Ids(Head(batches)) \o IdsByBatch(Tail(batches))

PrintOrderByBatch(p) == IdsByBatch(p.batches)

\* print_order = ids of by_prio[1] + by_prio[2] + by_prio[3]
PrintOrder(p) == Ids(p.by_prio[1]) \o Ids(p.by_prio[2]) \o Ids(p.by_prio[3])

\* optimize_printing(print_jobs, constraints) up to the while loop
PrCall ==
    /\ pr.pc = "ready"
    /\ pr' = IF ~PrJobsValid(pr.jobs, pr.cn) \/ ~PrPrioritiesValid(pr.jobs)
             THEN [pr EXCEPT !.pc = "raised"]
             ELSE [pr EXCEPT !.pc = "loop",
                             !.by_prio = ByPrio(pr.jobs, Len(pr.jobs)),
                             !.pending = ByPrio(pr.jobs, Len(pr.jobs))]
    /\ UNCHANGED besidePr

\* One iteration of `while any_pending()`; max() of an empty batch raises.
PrBatch ==
    /\ pr.pc = "loop"
    /\ AnyPending(pr.pending)
    /\ LET st == FormBatch(pr.pending, pr.cn)
       IN  pr' = IF Len(st.batch) = 0
                 THEN [pr EXCEPT !.pc = "raised", !.batches = Append(@, st.batch)]
                 ELSE [pr EXCEPT !.pending = st.pending,
                                 !.batches = Append(@, st.batch),
                                 !.total_time = @ + MaxPrintTime(st.batch)]
    /\ UNCHANGED besidePr

\* the loop ends; print_order is built and the dict returned
PrReturn ==
    /\ pr.pc = "loop"
    /\ ~AnyPending(pr.pending)
    /\ pr' = [pr EXCEPT !.pc = "returned",
                        !.result = [print_order |-> PrintOrder(pr),
                                    total_time |-> pr.total_time]]
    /\ UNCHANGED besidePr

NextPrinting == PrCall \/ PrBatch \/ PrReturn

(***************************************************************************)
(* hw-8/hw-1.py: range sums over an array, with and without an LRU cache.  *)
(* Indices are Python's, from 0; make_queries draws them from 0..n-1 with  *)
(* left <= right.                                                           *)
(***************************************************************************)
RsLen == 3
RsMaxOps == 3
\* the values an update writes; a range of sum -1 looks like a miss to get
RsValues == {-1, 2}
RsCapacities == {0, 1, 2}
RsArrays == [1..RsLen -> {1, 2}]

RangeKey(L, R) == [L |-> L, R |-> R]

\* the (left, right) pairs make_queries can draw
RsRanges == {k \in [L : 0..(RsLen - 1), R : 0..(RsLen - 1)] : k.L <= k.R}

\* sum(array[left:right + 1]); the slice ends with the list
RECURSIVE SumSlice(_, _, _)
SumSlice(array, left, right) ==
    IF left > right \/ left >= Len(array) THEN 0
    ELSE array[left + 1] + SumSlice(array, left + 1, right)

\* range_sum_no_cache(array, left, right)
range_sum_no_cache(array, left, right) == SumSlice(array, left, right)

\* update_no_cache(array, index, value)
update_no_cache(array, index, value) == [array EXCEPT ![index + 1] = value]

\* LRUCache(capacity): _od is the sequence of its items, oldest first
LRUCache(capacity) == [capacity |-> capacity, od |-> <<>>]

\* key in self._od
InOd(od, key) == \E i \in 1..Len(od) : od[i].key = key

PosInOd(od, key) == CHOOSE i \in 1..Len(od) : od[i].key = key

\* del self._od[key]
OdWithout(od, key) ==
    LET i == PosInOd(od, key)
    IN  SubSeq(od, 1, i - 1) \o SubSeq(od, i + 1, Len(od))

\* no move: the order of _od stays as the keys were first put
MoveToEndStay(od, key) == od

\* self._od.move_to_end(key)
MoveToEnd(od, key) == Append(OdWithout(od, key), od[PosInOd(od, key)])

\* LRUCache.get(key): the cache after the call and the value returned
CacheGet(cache, key) ==
    IF ~InOd(cache.od, key) THEN [cache |-> cache, value |-> -1]
    ELSE [cache |-> [cache EXCEPT !.od = MoveToEnd(@, key)],
          value |-> cache.od[PosInOd(cache.od, key)].value]

\* LRUCache.put(key, value)
CachePut(cache, key, value) ==
    LET moved == IF InOd(cache.od, key) THEN MoveToEnd(cache.od, key) ELSE cache.od
        set == IF InOd(moved, key)
               THEN [moved EXCEPT ![Len(moved)].value = value]
               ELSE Append(moved, [key |-> key, value |-> value])
    IN  [cache EXCEPT !.od = IF Len(set) > cache.capacity THEN Tail(set) ELSE set]

\* LRUCache.delete(key)
CacheDelete(cache, key) ==
    IF InOd(cache.od, key) THEN [cache EXCEPT !.od = OdWithout(@, key)] ELSE cache

\* range_sum_with_cache(array, left, right, cache)
range_sum_with_cache(array, left, right, cache) ==
    LET key == RangeKey(left, right)
        cached == CacheGet(cache, key)
        s == SumSlice(array, left, right)
    IN  IF cached.value # -1 THEN cached
        ELSE [cache |-> CachePut(cached.cache, key, s), value |-> s]

\* key.L < index < key.R: the ends of a range are left in the cache
CoversInside(key, index) == key.L < index /\ index < key.R

\* key.L <= index <= key.R
Covers(key, index) == key.L <= index /\ index <= key.R

\* the loop of update_with_cache over list(cache.keys())
RECURSIVE Invalidate(_, _, _)
Invalidate(cache, keys, index) ==
    IF Len(keys) = 0 THEN cache
    ELSE Invalidate(IF Covers(Head(keys), index) THEN CacheDelete(cache, Head(keys))
                    ELSE cache,
                    Tail(keys), index)

CacheKeys(cache) == [i \in 1..Len(cache.od) |-> cache.od[i].key]

\* update_with_cache(array, index, value, cache): the array and cache after it
update_with_cache(array, index, value, cache) ==
    [array |-> [array EXCEPT ![index + 1] = value],
     cache |-> Invalidate(cache, CacheKeys(cache), index)]

RsOff == [pc |-> "off", base |-> <<>>, arr_no |-> <<>>, arr_cached |-> <<>>,
          cache |-> LRUCache(0), total_no |-> 0, total_with |-> 0,
          dropped |-> 0, ops |-> 0, last |-> NoCall]

\* run_experiment before its two loops; the loops are run side by side here,
\* one query at a time, each on its own copy of base_array
RsStart(base, capacity) ==
    [RsOff EXCEPT !.pc = "run", !.base = base, !.arr_no = base, !.arr_cached = base,
                  !.cache = LRUCache(capacity)]

\* A ("Range", L, R) query in both loops; the hit and miss counters are only
\* printed, and last.hit tells which of them the query raised.
RsRange(L, R) ==
    /\ rs.pc = "run"
    /\ rs.ops < RsMaxOps
    /\ LET no == range_sum_no_cache(rs.arr_no, L, R)
           got == CacheGet(rs.cache, RangeKey(L, R))
           hit == got.value # -1
           with == IF hit THEN got
                   ELSE range_sum_with_cache(rs.arr_cached, L, R, got.cache)
       IN  rs' = [rs EXCEPT !.total_no = @ + no,
                            !.total_with = @ + with.value,
                            !.cache = with.cache,
                            !.ops = @ + 1,
                            !.last = [op |-> "Range", L |-> L, R |-> R, hit |-> hit,
                                      no |-> no, with |-> with.value]]
    /\ UNCHANGED besideRs

\* An ("Update", idx, val) query in both loops; dropped counts the cached
\* ranges the updates have deleted.
RsUpdate(idx, val) ==
    /\ rs.pc = "run"
    /\ rs.ops < RsMaxOps
    /\ LET upd == update_with_cache(rs.arr_cached, idx, val, rs.cache)
       IN  rs' = [rs EXCEPT !.arr_no = update_no_cache(@, idx, val),
                            !.arr_cached = upd.array,
                            !.cache = upd.cache,
                            !.dropped = @ + Len(rs.cache.od) - Len(upd.cache.od),
                            !.ops = @ + 1,
                            !.last = [op |-> "Update"]]
    /\ UNCHANGED besideRs

NextRangeSum ==
    \/ \E k \in RsRanges : RsRange(k.L, k.R)
    \/ \E idx \in 0..(RsLen - 1), val \in RsValues : RsUpdate(idx, val)


(***************************************************************************)
(* hw-8/hw-2.py: SlidingWindowRateLimiter.  time.time() is the clock rl.now, *)
(* read in whole ticks; _history is a function from the user ids that have *)
(* a deque to their timestamps, oldest first.                              *)
(***************************************************************************)
RlMaxTime == 3
RlMaxCalls == 4
RlUsers == {"1", "2"}
RlWindows == {0, 1, 2}
RlLimits == {0, 1, 2}

\* SlidingWindowRateLimiter(window_size, max_requests)
SlidingWindowRateLimiter(window_size, max_requests) ==
    [window_size |-> window_size, max_requests |-> max_requests,
     history |-> [u \in {} |-> <<>>]]

\* self._history.pop(user_id, None)
HistoryPop(history, user_id) == [u \in (DOMAIN history) \ {user_id} |-> history[u]]

\* self._history[user_id] = dq
HistorySet(history, user_id, dq) ==
    [u \in (DOMAIN history) \cup {user_id} |-> IF u = user_id THEN dq ELSE history[u]]

\* dq[0] < limit: a timestamp exactly window_size old stays in the window
ExpiredStrictly(ts, limit) == ts < limit

\* dq[0] <= limit
Expired(ts, limit) == ts <= limit

\* while dq and dq[0] <= limit: dq.popleft()
RECURSIVE DropExpired(_, _)
DropExpired(dq, limit) ==
    IF Len(dq) > 0 /\ Expired(dq[1], limit) THEN DropExpired(Tail(dq), limit) ELSE dq

\* _cleanup_window(user_id, current_time): the limiter after it
cleanup_window(lim, user_id, current_time) ==
    IF user_id \notin DOMAIN lim.history THEN lim
    ELSE LET dq == DropExpired(lim.history[user_id], current_time - lim.window_size)
         IN  IF Len(dq) = 0
             THEN [lim EXCEPT !.history = HistoryPop(@, user_id)]
             ELSE [lim EXCEPT !.history = HistorySet(@, user_id, dq)]

\* can_send_message(user_id) at time now: the limiter after it and the result
can_send_message(lim, user_id, now) ==
    LET c == cleanup_window(lim, user_id, now)
    IN  [limiter |-> c,
         value |-> IF user_id \notin DOMAIN c.history THEN TRUE
                   ELSE Len(c.history[user_id]) < c.max_requests]

\* record_message(user_id) that appends whenever the deque is short of
\* max_requests + 1 timestamps
record_message_one_more(lim, user_id, now) ==
    LET c == cleanup_window(lim, user_id, now)
        dq == IF user_id \in DOMAIN c.history THEN c.history[user_id] ELSE <<>>
    IN  IF Len(dq) < c.max_requests + 1
        THEN [limiter |-> [c EXCEPT !.history = HistorySet(@, user_id, Append(dq, now))],
              value |-> TRUE]
        ELSE [limiter |-> [c EXCEPT !.history = HistorySet(@, user_id, dq)],
              value |-> FALSE]

\* record_message(user_id) at time now: the limiter after it and the result
record_message(lim, user_id, now) ==
    LET c == cleanup_window(lim, user_id, now)
        dq == IF user_id \in DOMAIN c.history THEN c.history[user_id] ELSE <<>>
    IN  IF Len(dq) < c.max_requests
        THEN [limiter |-> [c EXCEPT !.history = HistorySet(@, user_id, Append(dq, now))],
              value |-> TRUE]
        ELSE [limiter |-> [c EXCEPT !.history = HistorySet(@, user_id, dq)],
              value |-> FALSE]

\* time_until_next_allowed(user_id) at time now: the limiter after it and the result
time_until_next_allowed(lim, user_id, now) ==
    LET c == cleanup_window(lim, user_id, now)
    IN  [limiter |-> c,
         value |-> IF user_id \notin DOMAIN c.history
                      \/ Len(c.history[user_id]) < c.max_requests
                   THEN 0
                   ELSE LET wait == c.history[user_id][1] + c.window_size - now
                        IN  IF wait > 0 THEN wait ELSE 0]

NoUsers == [u \in RlUsers |-> <<>>]

\* rl.accepted: per user, the times of the record_message calls that
\* returned True; rl.due: per user, now + wait of the last
\* time_until_next_allowed, or -1 once a message of the user was recorded
RlOff == [pc |-> "off", limiter |-> SlidingWindowRateLimiter(0, 0), now |-> 0,
          calls |-> 0, accepted |-> NoUsers, due |-> [u \in RlUsers |-> -1],
          last |-> NoCall]

RlStart(window_size, max_requests) ==
    [RlOff EXCEPT !.pc = "run",
                  !.limiter = SlidingWindowRateLimiter(window_size, max_requests)]

\* time.time() has moved on by one tick
RlClock ==
    /\ rl.pc = "run"
    /\ rl.now < RlMaxTime
    /\ rl' = [rl EXCEPT !.now = @ + 1]
    /\ UNCHANGED besideRl

RlRecord(user_id) ==
    /\ rl.pc = "run"
    /\ rl.calls < RlMaxCalls
    /\ \E r \in {record_message(rl.limiter, user_id, rl.now)} :
          rl' = [rl EXCEPT !.limiter = r.limiter,
                           !.calls = @ + 1,
                           !.accepted[user_id] = IF r.value THEN Append(@, rl.now) ELSE @,
                           !.due[user_id] = IF r.value THEN -1 ELSE @,
                           !.last = [op |-> "record_message", user |-> user_id,
                                     value |-> r.value]]
    /\ UNCHANGED besideRl

RlCanSend(user_id) ==
    /\ rl.pc = "run"
    /\ rl.calls < RlMaxCalls
    /\ \E r \in {can_send_message(rl.limiter, user_id, rl.now)} :
          rl' = [rl EXCEPT !.limiter = r.limiter,
                           !.calls = @ + 1,
                           !.last = [op |-> "can_send_message", user |-> user_id,
                                     value |-> r.value]]
    /\ UNCHANGED besideRl

RlWait(user_id) ==
    /\ rl.pc = "run"
    /\ rl.calls < RlMaxCalls
    /\ \E r \in {time_until_next_allowed(rl.limiter, user_id, rl.now)} :
          rl' = [rl EXCEPT !.limiter = r.limiter,
                           !.calls = @ + 1,
                           !.due[user_id] = rl.now + r.value,
                           !.last = [op |-> "time_until_next_allowed", user |-> user_id,
                                     value |-> r.value]]
    /\ UNCHANGED besideRl

NextLimiter ==
    \/ RlClock
    \/ \E user_id \in RlUsers : RlRecord(user_id)
    \/ \E user_id \in RlUsers : RlCanSend(user_id)
    \/ \E user_id \in RlUsers : RlWait(user_id)

(***************************************************************************)
(* hw-8/hw-1.py: an LRUCache of its own, called in any order.  lru.log is  *)
(* the history of the calls: each get with whether the key was found, each *)
(* put and each delete.                                                    *)
(***************************************************************************)
LruMaxOps == 4
LruKeys == {"a", "b", "c"}
\* a stored -1 is what get returns for a missing key
LruValues == {-1, 7}
LruCapacities == {0, 1, 2}

OdKeys(cache) == {cache.od[i].key : i \in 1..Len(cache.od)}

LruOff == [pc |-> "off", cache |-> LRUCache(0), log |-> <<>>, last |-> NoCall]

LruStart(capacity) == [LruOff EXCEPT !.pc = "run", !.cache = LRUCache(capacity)]

LruGet(key) ==
    /\ lru.pc = "run"
    /\ Len(lru.log) < LruMaxOps
    /\ \E r \in {CacheGet(lru.cache, key)} :
          lru' = [lru EXCEPT !.cache = r.cache,
                             !.log = Append(@, [op |-> "get", key |-> key,
                                                found |-> InOd(lru.cache.od, key)]),
                             !.last = [op |-> "get", key |-> key, value |-> r.value]]
    /\ UNCHANGED besideLru

LruPut(key, value) ==
    /\ lru.pc = "run"
    /\ Len(lru.log) < LruMaxOps
    /\ \E c \in {CachePut(lru.cache, key, value)} :
          lru' = [lru EXCEPT !.cache = c,
                             !.log = Append(@, [op |-> "put", key |-> key, found |-> TRUE]),
                             !.last = [op |-> "put", key |-> key, value |-> value,
                                       evicted |-> (OdKeys(lru.cache) \cup {key})
                                                       \ OdKeys(c)]]
    /\ UNCHANGED besideLru

LruDelete(key) ==
    /\ lru.pc = "run"
    /\ Len(lru.log) < LruMaxOps
    /\ lru' = [lru EXCEPT !.cache = CacheDelete(@, key),
                          !.log = Append(@, [op |-> "delete", key |-> key,
                                             found |-> InOd(lru.cache.od, key)]),
                          !.last = [op |-> "delete", key |-> key]]
    /\ UNCHANGED besideLru

NextLru ==
    \/ \E key \in LruKeys : LruGet(key)
    \/ \E key \in LruKeys, value \in LruValues : LruPut(key, value)
    \/ \E key \in LruKeys : LruDelete(key)

\* The algorithms are not running.
AlgsIdle == mm = MmOff /\ pr = PrOff /\ rs = RsOff /\ rl = RlOff /\ lru = LruOff

\* No sketch has been built.
SketchesIdle ==
    /\ hll = NoInstance
    /\ hllRet = NoCall
    /\ hllAdded = {}
    /\ bloom = NoInstance
    /\ bfRet = NoCall
    /\ bfAdded = {}
    /\ chkPc = "idle"
    /\ chkMarkInvalid = TRUE
    /\ chkResults = <<>>
    /\ chkTrace = <<>>
    /\ twin = NoTwin
    /\ thr = ThreadsStart(TRUE)

InitMinMax ==
    /\ SketchesIdle
    /\ pr = PrOff
    /\ rs = RsOff
    /\ rl = RlOff
    /\ lru = LruOff
    /\ \E arr \in MmArrays : mm = MmReady(arr)

InitPrinting ==
    /\ SketchesIdle
    /\ mm = MmOff
    /\ rs = RsOff
    /\ rl = RlOff
    /\ lru = LruOff
    /\ \/ \E n \in 0..PrMaxJobs :
              \E f \in [1..n -> PrVolumes \X {1, 2, 3}], rising \in BOOLEAN :
                  pr = PrReady([jobs |-> PrJobList(n, f, rising),
                                cn |-> PrTestConstraints])
       \/ \E in \in PrInvalidInputs : pr = PrReady(in)

InitRangeSum ==
    /\ SketchesIdle
    /\ mm = MmOff
    /\ pr = PrOff
    /\ rl = RlOff
    /\ lru = LruOff
    /\ \E base \in RsArrays, capacity \in RsCapacities : rs = RsStart(base, capacity)

InitLimiter ==
    /\ SketchesIdle
    /\ mm = MmOff
    /\ pr = PrOff
    /\ rs = RsOff
    /\ lru = LruOff
    /\ \E window_size \in RlWindows, max_requests \in RlLimits :
          rl = RlStart(window_size, max_requests)

InitLru ==
    /\ SketchesIdle
    /\ mm = MmOff
    /\ pr = PrOff
    /\ rs = RsOff
    /\ rl = RlOff
    /\ \E capacity \in LruCapacities : lru = LruStart(capacity)

\* Everything but the threads, as the process starts.
InitSketches ==
    /\ AlgsIdle
    /\ hll = NoInstance
    /\ hllRet = NoCall
    /\ hllAdded = {}
    /\ bloom = NoInstance
    /\ bfRet = NoCall
    /\ bfAdded = {}
    /\ chkPc = "idle"
    /\ chkMarkInvalid = TRUE
    /\ chkResults = <<>>
    /\ chkTrace = <<>>
    /\ twin = NoTwin

\* The threaded program, run with or without the callers' lock.
InitThreads ==
    /\ InitSketches
    /\ \E useLock \in BOOLEAN : thr = ThreadsStart(useLock)

Init ==
    /\ thr = ThreadsStart(TRUE)
    /\ AlgsIdle
    /\ hll = NoInstance
    /\ hllRet = NoCall
    /\ hllAdded = {}
    /\ bloom = NoInstance
    /\ bfRet = NoCall
    /\ bfAdded = {}
    /\ chkPc = "idle"
    /\ chkMarkInvalid = TRUE
    /\ chkResults = <<>>
    /\ chkTrace = <<>>
    /\ twin = NoTwin

NextHll ==
    \/ \E p \in PInputs : HllInit(p)
    \/ \E x \in HllItems : HllAdd(x)
    \/ HllCount

NextBloom ==
    \/ \E size \in SizeInputs, num_hashes \in KInputs : BfInit(size, num_hashes)
    \/ \E item \in BfItems : BfAdd(item)
    \/ \E item \in BfItems : BfContains(item)
    \/ \E mark_invalid \in BOOLEAN : CheckCall(mark_invalid)
    \/ \E raw \in BfRaws : CheckLoop(raw)
    \/ CheckReturn

\* A BloomFilter whose num_hashes is at the end of the two-byte salt.
NextBloomWide ==
    \/ \E size \in SizeInputs, num_hashes \in WideKInputs : BfInit(size, num_hashes)
    \/ \E item \in BfItems : BfAdd(item)
    \/ \E item \in BfItems : BfContains(item)
    \/ \E mark_invalid \in BOOLEAN : CheckCall(mark_invalid)
    \/ \E raw \in BfRaws : CheckLoop(raw)
    \/ CheckReturn

\* Two HyperLogLogs and two BloomFilters in one process, built with the same
\* parameters and fed the same item.
NextTwo ==
    \/ HllInit(MinP)
    \/ HllAdd(HllPool[1])
    \/ HllCount
    \/ TwinHllInit(MinP)
    \/ TwinHllAdd(HllPool[1])
    \/ TwinHllCount
    \/ BfInit(9, MaxK)
    \/ BfAdd(G)
    \/ BfContains(G)
    \/ TwinBfInit(9, MaxK)
    \/ TwinBfAdd(G)
    \/ TwinBfContains(G)

\* One HyperLogLog(4) and one BloomFilter(9, k) shared by the two threads.
NextThreads ==
    \/ HllInit(MinP)
    \/ BfInit(9, MaxK)
    \/ \E t \in Threads, x \in {"zero", "one"} : ThrHllAddCall(t, x)
    \/ \E t \in Threads : ThrHllTest(t)
    \/ \E t \in Threads : ThrHllStore(t)
    \/ \E t \in Threads, item \in {G, Admin} : ThrBfAddCall(t, item)
    \/ \E t \in Threads : ThrBfLoad(t)
    \/ \E t \in Threads : ThrBfStore(t)

\* hll_count_unique_ips(path, p): one HyperLogLog(p) is fed the addresses of a
\* log and counted.  The logs modelled list one address per register, in the
\* order of the registers, those of LogHi before those of LogLo.
LogPos(x) == CHOOSE i \in 1..Len(LogLo) : LogLo[i] = x \/ LogHi[i] = x

LogDelivers(x) ==
    /\ LogPos(x) = Cardinality(hllAdded) + 1
    /\ x \in {LogHi[i] : i \in 1..Len(LogHi)} =>
           hllAdded \subseteq {LogHi[i] : i \in 1..Len(LogHi)}

NextHllLog ==
    \/ HllInit(MinP)
    \/ \E x \in LogItems : LogDelivers(x) /\ HllAdd(x)
    \/ HllCount

\* Both sketches in one process, each fed from the head of its pool.
Next ==
    \/ \E p \in PInputs : HllInit(p)
    \/ \E x \in {HllPool[1], HllPool[2]} : HllAdd(x)
    \/ HllCount
    \/ \E size \in SizeInputs, num_hashes \in KInputs : BfInit(size, num_hashes)
    \/ \E item \in {ToStr(RawPool[1]), ToStr(RawPool[2])} : BfAdd(item)
    \/ \E item \in {ToStr(RawPool[1]), ToStr(RawPool[2])} : BfContains(item)

\* One HyperLogLog on its own, one BloomFilter (with the uniqueness check) on
\* its own, and the two side by side.
SpecHll == Init /\ [][NextHll]_vars

SpecBloom == Init /\ [][NextBloom]_vars

Spec == Init /\ [][Next]_vars

SpecHllLog == Init /\ [][NextHllLog]_vars

SpecBloomWide == Init /\ [][NextBloomWide]_vars

SpecTwo == Init /\ [][NextTwo]_vars

SpecThreads == InitThreads /\ [][NextThreads]_vars

\* One call of find_min_max_divide_and_conquer; the interpreter keeps running
\* a call that can take a step.
SpecMinMax == InitMinMax /\ [][NextMinMax]_vars /\ WF_vars(NextMinMax)

\* One call of optimize_printing.
SpecPrinting == InitPrinting /\ [][NextPrinting]_vars

\* One run of run_experiment, for every base array and cache capacity.
SpecRangeSum == InitRangeSum /\ [][NextRangeSum]_vars

\* One limiter, for every window_size and max_requests, under a clock that
\* never runs backwards.
SpecLimiter == InitLimiter /\ [][NextLimiter]_vars

\* One LRUCache, for every capacity, under every order of get, put and delete.
SpecLru == InitLru /\ [][NextLru]_vars

(***************************************************************************)
(* Properties                                                              *)
(***************************************************************************)
Max(a, b) == IF a >= b THEN a ELSE b

\* C1: no false negatives.  In every state of a BloomFilter, every string that
\* has been passed to add (directly or by the uniqueness check) tests as a
\* member, whatever was added after it.
C1_NoFalseNegatives ==
    bloom # NoInstance => \A item \in bfAdded : contains(bloom, item)

\* C1 happens: several strings were added and the filter is not saturated
\* (some string that was never added still tests absent).
C1_Witness ==
    /\ bloom # NoInstance
    /\ Cardinality(bfAdded) >= 2
    /\ \E item \in BfItems \ bfAdded : ~contains(bloom, item)

\* The registers a step can touch: those written before or after it (every
\* other register reads 0 on both sides).
Touched(h1, h2) == (DOMAIN h1.registers) \cup (DOMAIN h2.registers)

\* C2: every step (add or count) leaves each register at least as large as it
\* was, and leaves the instance in place.
C2_RegistersMonotone ==
    [][hll # NoInstance =>
          /\ hll' # NoInstance
          /\ \A i \in Touched(hll, hll') :
                 Reg(hll'.registers, i) >= Reg(hll.registers, i)]_vars

\* C2 happens: register 0 holds the larger rank of "zero" although "one", which
\* has the same index and a smaller rank, was added last.
C2_Witness ==
    /\ hll # NoInstance
    /\ {"zero", "one"} \subseteq hllAdded
    /\ hllRet.op = "add" /\ hllRet.arg = "one"
    /\ Reg(hll.registers, 0) = AddRank(hll, "zero")
    /\ AddRank(hll, "one") < AddRank(hll, "zero")

\* C3: no step of add, contains or the uniqueness check clears a bit, and a
\* string that tests as a member keeps testing as a member.
C3_BitsMonotone ==
    [][bloom # NoInstance =>
          /\ bloom' # NoInstance
          /\ \A idx \in 0..(bloom.size - 1) :
                 get_bit(bloom.bits, idx) => get_bit(bloom'.bits, idx)
          /\ \A item \in BfItems :
                 contains(bloom, item) => contains(bloom', item)]_vars

\* C3 happens: a uniqueness check has returned on a filter in which two
\* different added strings share a bit.
C3_Witness ==
    /\ bloom # NoInstance
    /\ bfRet.op = "check-return"
    /\ \E x \in bfAdded, y \in bfAdded :
           /\ x # y
           /\ \E i \in 1..bloom.num_hashes, j \in 1..bloom.num_hashes :
                  hashes(bloom, x)[i] = hashes(bloom, y)[j]
    /\ \E idx \in 0..(bloom.size - 1) : ~get_bit(bloom.bits, idx)

\* C4: an add of an item that was added before (whatever was added in between)
\* leaves the registers, and with them the whole instance count() reads, as
\* they are.
C4_AddIdempotent ==
    [][(hll # NoInstance /\ hllRet'.op = "add" /\ hllRet'.arg \in hllAdded) =>
          /\ hll'.registers = hll.registers
          /\ hll' = hll]_vars

\* C4 happens: the last call added an item again after other items had been
\* added, one of them to the same register.
C4_Witness ==
    /\ hll # NoInstance
    /\ hllRet.op = "add" /\ hllRet.status = "ok" /\ hllRet.again
    /\ \E y \in hllAdded :
           /\ y # hllRet.arg
           /\ AddIdx(hll, y) = AddIdx(hll, hllRet.arg)
           /\ AddRank(hll, y) # AddRank(hll, hllRet.arg)

\* C5: HyperLogLog(p) raises exactly when p is outside 4..18 and
\* BloomFilter(size, num_hashes) exactly when size <= 0 or num_hashes <= 0; a
\* constructor that raises leaves no instance, one that returns leaves a
\* complete one; no other call raises.
C5_ConstructorsValidate ==
    /\ hllRet.op = "init" =>
           /\ hllRet.status = "ValueError" <=> (hllRet.arg < 4 \/ hllRet.arg > 18)
           /\ hllRet.status = "ValueError" => hll = NoInstance
           /\ hllRet.status = "ok" =>
                  /\ hll # NoInstance
                  /\ hll.p = hllRet.arg /\ hll.m = 2 ^ hllRet.arg
                  /\ DOMAIN hll.registers = {}
    /\ bfRet.op = "init" =>
           /\ bfRet.status = "ValueError" <=> (bfRet.size <= 0 \/ bfRet.num_hashes <= 0)
           /\ bfRet.status = "ValueError" => bloom = NoInstance
           /\ bfRet.status = "ok" =>
                  /\ bloom # NoInstance
                  /\ bloom.size = bfRet.size /\ bloom.num_hashes = bfRet.num_hashes
                  /\ \A byte_i \in DOMAIN bloom.bits : bloom.bits[byte_i] = 0
                  /\ 8 * Cardinality(DOMAIN bloom.bits) >= bloom.size
    /\ hllRet.op \in {"add", "count"} => hllRet.status = "ok"
    /\ bfRet.op \in {"add", "contains"} => bfRet.status = "ok"
    /\ hll # NoInstance => (hll.p >= 4 /\ hll.p <= 18)
    /\ bloom # NoInstance => (bloom.size > 0 /\ bloom.num_hashes > 0)

\* C5 happens: HyperLogLog(18) has succeeded after HyperLogLog(19) could not,
\* and BloomFilter(size, 0) with a valid size has just raised.
C5_Witness ==
    /\ hllRet.op = "init" /\ hllRet.status = "ok" /\ hll # NoInstance /\ hll.p = 18
    /\ bfRet.op = "init" /\ bfRet.status = "ValueError"
    /\ bfRet.size > 0 /\ bfRet.num_hashes = 0
    /\ bloom = NoInstance

\* A step that is one iteration of the loop of check_password_uniqueness: the
\* candidate, its dict key, its trimmed value and its status.
IsLoopStep == chkPc = "loop" /\ Len(chkTrace') = Len(chkTrace) + 1
StepRaw == chkTrace'[Len(chkTrace')].raw
StepStatus == chkTrace'[Len(chkTrace')].status
StepKey == ToStr(StepRaw)
StepNorm == strip(StepKey)

DictGet(d, key) == (CHOOSE i \in 1..Len(d) : d[i].key = key)

\* C6 as stated: every candidate whose trimmed value tests as a member of the
\* filter at that moment is marked 'already used'.
C6_Original ==
    [][(IsLoopStep /\ contains(bloom, StepNorm)) => StepStatus = StUsed]_vars

\* C6 amended: a candidate whose trimmed value tests as a member is marked
\* 'already used' unless it is blank under mark_invalid (then it is marked
\* 'invalid'); it is never marked 'unique', be the value in the filter from
\* before the call or from a candidate marked 'unique' earlier in the call; a
\* repeat of a value marked 'unique' earlier in the call is 'already used'.
C6_UsedWhenMember ==
    [][IsLoopStep =>
          /\ (contains(bloom, StepNorm) /\ ~(chkMarkInvalid /\ StepNorm = <<>>)) =>
                 /\ StepStatus = StUsed
                 /\ chkResults'[DictGet(chkResults', StepKey)].value = StUsed
          /\ (contains(bloom, StepNorm) /\ chkMarkInvalid /\ StepNorm = <<>>) =>
                 StepStatus = StInvalid
          /\ (contains(bloom, StepNorm) \/ StepNorm \in bfAdded) =>
                 StepStatus # StUnique
          /\ (\E i \in 1..Len(chkTrace) :
                  /\ chkTrace[i].status = StUnique
                  /\ strip(ToStr(chkTrace[i].raw)) = StepNorm) =>
                 StepStatus = StUsed]_vars

\* C6 happens: the second candidate of a call repeats, under another raw
\* spelling, the trimmed value of the first, which was marked 'unique'.
C6_Witness ==
    /\ chkPc = "loop"
    /\ Len(chkTrace) = 2
    /\ chkTrace[1].status = StUnique
    /\ chkTrace[2].status = StUsed
    /\ chkTrace[1].raw # chkTrace[2].raw
    /\ strip(ToStr(chkTrace[1].raw)) = strip(ToStr(chkTrace[2].raw))

\* C7: an iteration that marks its candidate 'invalid' or 'already used'
\* leaves the bit array as it is, one that marks it 'unique' adds the trimmed
\* value; when the call returns, every candidate marked 'unique' tests as a
\* member by its trimmed value.
C7_AddsExactlyUnique ==
    [][/\ IsLoopStep =>
              /\ StepStatus \in {StInvalid, StUsed} => bloom' = bloom
              /\ StepStatus = StUnique =>
                     /\ ~contains(bloom, StepNorm)
                     /\ contains(bloom', StepNorm)
                     /\ bloom'.bits = AddBits(bloom, StepNorm)
              /\ StepStatus \in {StInvalid, StUsed, StUnique}
       /\ (chkPc = "loop" /\ chkPc' = "idle") =>
              /\ bloom' = bloom
              /\ \A i \in 1..Len(chkTrace) :
                     chkTrace[i].status = StUnique =>
                         contains(bloom', strip(ToStr(chkTrace[i].raw)))]_vars

\* C7 happens: a call has returned after marking one candidate 'invalid' and
\* another 'unique'.
C7_Witness ==
    /\ bfRet.op = "check-return"
    /\ \E i \in 1..Len(bfRet.trace), j \in 1..Len(bfRet.trace) :
           /\ bfRet.trace[i].status = StInvalid
           /\ bfRet.trace[j].status = StUnique
           /\ contains(bloom, strip(ToStr(bfRet.trace[j].raw)))

\* C8: the register array has m = 2^p entries and every register lies in
\* 0..(64 - p) + 1, which fits one byte.
C8_RegisterRange ==
    hll # NoInstance =>
        /\ hll.m = 2 ^ hll.p
        /\ DOMAIN hll.registers \subseteq 0..(hll.m - 1)
        /\ \A i \in DOMAIN hll.registers :
               /\ hll.registers[i] >= 0
               /\ hll.registers[i] <= (64 - hll.p) + 1
               /\ hll.registers[i] <= 255

\* C8 happens: a register has reached the upper end (64 - p) + 1.
C8_Witness ==
    /\ hll # NoInstance
    /\ \E i \in DOMAIN hll.registers : hll.registers[i] = (64 - hll.p) + 1
    /\ Cardinality(DOMAIN hll.registers) >= 2

\* The index and the rank as the specification words them, read off the 64
\* bits of the fingerprint (bit 1 is the most significant).
RECURSIVE TopBitsValue(_, _)
TopBitsValue(bits, n) ==
    IF n = 0 THEN 0 ELSE 2 * TopBitsValue(bits, n - 1) + bits[n]

LeftmostSetBit(bits, p) ==
    CHOOSE j \in (p + 1)..64 : bits[j] = 1 /\ \A k \in (p + 1)..(j - 1) : bits[k] = 0

SpecRank(bits, p) ==
    IF \A j \in (p + 1)..64 : bits[j] = 0 THEN (64 - p) + 1
    ELSE LeftmostSetBit(bits, p) - p

\* C9: add(x) changes at most the register whose index is the value of the
\* top p bits of the fingerprint, sets it to the larger of its old value and
\* the rank of the low 64 - p bits, and changes nothing else.
C9_AddUpdatesOneRegister ==
    [][(hll # NoInstance /\ hllRet'.op = "add") =>
          \A bits \in {BytesToBits(Blake2b8(hllRet'.arg))} :
              \A idx \in {TopBitsValue(bits, hll.p)}, rank \in {SpecRank(bits, hll.p)} :
                  /\ hllRet'.status = "ok"
                  /\ 0 <= idx /\ idx < hll.m
                  /\ Reg(hll'.registers, idx) = Max(Reg(hll.registers, idx), rank)
                  /\ \A i \in Touched(hll, hll') \ {idx} :
                         Reg(hll'.registers, i) = Reg(hll.registers, i)
                  /\ hll'.p = hll.p /\ hll'.m = hll.m
                  /\ hll'.alpha_m = hll.alpha_m]_vars

\* C9 happens: with p = 5, "edge4" (bit 5 set alone) went to register 1 with
\* the rank of an all-zero window, and other registers are in use.
C9_Witness ==
    /\ hll # NoInstance /\ hll.p = 5
    /\ hllRet.op = "add" /\ hllRet.arg = "edge4"
    /\ Reg(hll.registers, 1) = 60
    /\ Cardinality(DOMAIN hll.registers) >= 3

\* C10: count() on an instance nothing was added to returns 0, by the
\* linear-counting branch with zero_count = m.
C10_FreshCountZero ==
    (hll # NoInstance /\ hllRet.op = "count" /\ hllAdded = {}) =>
        /\ hllRet.value.branch = "linear"
        /\ hllRet.value.zeros = hll.m
        /\ CountIsZero(hllRet.value)

\* C10 happens: count() was called on a fresh HyperLogLog(18).
C10_Witness ==
    /\ hll # NoInstance /\ hll.p = 18
    /\ hllRet.op = "count" /\ hllAdded = {}

\* The raw estimate and the 2.5 * m test written out in whole numbers, for
\* registers that are all at most scale: with S = sum of 2^(scale - register),
\* raw = alpha_m * m^2 * 2^scale / S.
RegScale(h) == Max(1, IndicatorScale(h))

RECURSIVE ScaledSum(_, _, _)
ScaledSum(h, i, scale) ==
    IF i = h.m THEN 0
    ELSE 2 ^ (scale - Reg(h.registers, i)) + ScaledSum(h, i + 1, scale)

AlphaNum(m) == IF m = 16 THEN 673 ELSE IF m = 32 THEN 697 ELSE 709

RawAtMostLimit(h) ==
    2 * AlphaNum(h.m) * h.m * (2 ^ RegScale(h)) <= 5 * 1000 * ScaledSum(h, 0, RegScale(h))

HasZeroRegister(h) == \E i \in 0..(h.m - 1) : Reg(h.registers, i) = 0

\* C11: count() returns the linear-counting value m * ln(m / zero_count)
\* exactly when raw <= 2.5 * m and some register is zero, and returns raw
\* itself, uncorrected, in every other case.
C11_CountBranchRule ==
    (hll # NoInstance /\ hllRet.op = "count") =>
        /\ hllRet.status = "ok"
        /\ hllRet.value.branch = "linear" <=>
               (RawAtMostLimit(hll) /\ HasZeroRegister(hll))
        /\ hllRet.value.branch = "linear" =>
               /\ hllRet.value.m = hll.m
               /\ hllRet.value.zeros =
                      Cardinality({i \in 0..(hll.m - 1) : Reg(hll.registers, i) = 0})
        /\ hllRet.value.branch # "linear" =>
               /\ hllRet.value.branch = "raw"
               /\ BigNorm(BigMul(hllRet.value.E.num,
                                 BigFromNat(1000 * ScaledSum(hll, 0, RegScale(hll)))))
                  = BigNorm(BigMul(hllRet.value.E.den,
                                   BigFromNat(AlphaNum(hll.m) * hll.m * hll.m
                                              * (2 ^ RegScale(hll)))))

\* C11 happens: every register holds rank 1, so raw is below 2.5 * m, and
\* count() has returned raw because no register is zero.
C11_Witness ==
    /\ hll # NoInstance /\ hllRet.op = "count"
    /\ ~HasZeroRegister(hll)
    /\ RawAtMostLimit(hll)
    /\ hllRet.value.branch = "raw"

C13_NeverFail ==
    /\ hllRet.op \in {"add", "count"} => hllRet.status = "ok"
    /\ bfRet.op \in {"add", "contains", "check-raise"} => bfRet.status = "ok"

\* The positions at which a key occurs among the candidates of a call.
Occurrences(trace, key) == {k \in 1..Len(trace) : ToStr(trace[k].raw) = key}

FirstOccurrence(trace, key) ==
    CHOOSE k \in Occurrences(trace, key) : \A n \in Occurrences(trace, key) : k <= n

LastOccurrence(trace, key) ==
    CHOOSE k \in Occurrences(trace, key) : \A n \in Occurrences(trace, key) : k >= n

\* C14: the returned mapping has one entry per distinct raw string, in the
\* order of first occurrence, holding the status of the last occurrence; a
\* non-blank raw string that occurs twice is reported 'already used'.
C14_MappingByRawKey ==
    bfRet.op = "check-return" =>
        LET d == bfRet.value
            trace == bfRet.trace
        IN  /\ {d[i].key : i \in 1..Len(d)} = {ToStr(trace[k].raw) : k \in 1..Len(trace)}
            /\ \A i \in 1..Len(d), j \in 1..Len(d) : i # j => d[i].key # d[j].key
            /\ \A i \in 1..Len(d), j \in 1..Len(d) :
                   i < j => FirstOccurrence(trace, d[i].key) < FirstOccurrence(trace, d[j].key)
            /\ \A i \in 1..Len(d) :
                   d[i].value = trace[LastOccurrence(trace, d[i].key)].status
            /\ \A i \in 1..Len(d) :
                   (Cardinality(Occurrences(trace, d[i].key)) >= 2
                        /\ strip(d[i].key) # <<>>) => d[i].value = StUsed

\* C14 happens: a call got the same non-blank raw string twice, marked it
\* 'unique' the first time, and returned one entry saying 'already used'.
C14_Witness ==
    /\ bfRet.op = "check-return"
    /\ Len(bfRet.trace) = 2
    /\ bfRet.trace[1].raw = bfRet.trace[2].raw
    /\ strip(ToStr(bfRet.trace[1].raw)) # <<>>
    /\ bfRet.trace[1].status = StUnique
    /\ Len(bfRet.value) = 1
    /\ bfRet.value[1].value = StUsed

\* C15: a step changes a sketch only when it is an add on that very
\* instance: count() leaves the HyperLogLog as it is, `in` leaves the
\* BloomFilter as it is, p, m, alpha_m, size and num_hashes stay what the
\* constructor set, and a call on one instance leaves every other instance as
\* it is.
C15_OnlyAddMutates ==
    [][/\ (hll # NoInstance /\ hll' # hll) =>
              /\ hllRet'.op = "add"
              /\ hll'.p = hll.p /\ hll'.m = hll.m /\ hll'.alpha_m = hll.alpha_m
              /\ twin' = twin /\ bloom' = bloom
       /\ (bloom # NoInstance /\ bloom' # bloom) =>
              /\ bfRet'.op = "add"
              /\ bloom'.size = bloom.size /\ bloom'.num_hashes = bloom.num_hashes
              /\ twin' = twin /\ hll' = hll
       /\ (twin.hll # NoInstance /\ twin'.hll # twin.hll) =>
              /\ twin'.ret.op = "hll-add"
              /\ twin'.hll.p = twin.hll.p /\ twin'.hll.m = twin.hll.m
              /\ twin'.hll.alpha_m = twin.hll.alpha_m
              /\ hll' = hll /\ bloom' = bloom /\ twin'.bloom = twin.bloom
       /\ (twin.bloom # NoInstance /\ twin'.bloom # twin.bloom) =>
              /\ twin'.ret.op = "bf-add"
              /\ twin'.bloom.size = twin.bloom.size
              /\ twin'.bloom.num_hashes = twin.bloom.num_hashes
              /\ hll' = hll /\ bloom' = bloom /\ twin'.hll = twin.hll
       /\ (hllRet' # hllRet /\ hllRet'.op = "count") => hll' = hll
       /\ (bfRet' # bfRet /\ bfRet'.op = "contains") => bloom' = bloom
       /\ (twin'.ret # twin.ret /\ twin'.ret.op = "hll-count") => twin'.hll = twin.hll
       /\ (twin'.ret # twin.ret /\ twin'.ret.op = "bf-contains") =>
              twin'.bloom = twin.bloom]_vars

\* C15 happens: of two HyperLogLog(4) and two BloomFilter(9, 2), one of each
\* has been added to and then queried, and its twin is still all zero.
C15_Witness ==
    /\ hll # NoInstance /\ twin.hll # NoInstance /\ hll.p = twin.hll.p
    /\ hllRet.op = "count" /\ hllAdded # {}
    /\ DOMAIN hll.registers # {} /\ DOMAIN twin.hll.registers = {}
    /\ bloom # NoInstance /\ twin.bloom # NoInstance /\ bloom.size = twin.bloom.size
    /\ twin.ret.op = "bf-contains" /\ twin.ret.value
    /\ \E byte_i \in DOMAIN twin.bloom.bits : twin.bloom.bits[byte_i] # 0
    /\ \A byte_i \in DOMAIN bloom.bits : bloom.bits[byte_i] = 0

\* An update is lost: a register is below the rank of an item whose add has
\* returned, or a string whose add has returned does not test as a member.
HllUpdateLost ==
    /\ hll # NoInstance
    /\ \E x \in hllAdded : Reg(hll.registers, AddIdx(hll, x)) < AddRank(hll, x)

BfUpdateLost ==
    /\ bloom # NoInstance
    /\ \E item \in bfAdded : ~contains(bloom, item)

\* C16: when the callers hold one lock around every add, no interleaving of
\* the two threads loses an update of a register or of a bit.
C16_LockedAddsLoseNothing ==
    thr.useLock => (~HllUpdateLost /\ ~BfUpdateLost)

\* C16 happens: without the lock, both threads have returned from their adds,
\* a register is below the rank one of them added and a bit one of them set
\* is clear.
C16_Witness ==
    /\ ~thr.useLock
    /\ \A t \in Threads : thr.t[t].pc = "idle"
    /\ HllUpdateLost
    /\ BfUpdateLost

\* The least and the greatest element of a non-empty list.
MinOf(arr) == CHOOSE v \in {arr[i] : i \in 1..Len(arr)} :
                  \A i \in 1..Len(arr) : v <= arr[i]

MaxOf(arr) == CHOOSE v \in {arr[i] : i \in 1..Len(arr)} :
                  \A i \in 1..Len(arr) : v >= arr[i]

\* C17: every call ends; for a non-empty list it returns (minimum, maximum),
\* for the empty list it raises ValueError without a call of rec.
C17_MinMaxCorrect ==
    /\ [](mm.pc = "returned" =>
              /\ Len(mm.arr) > 0
              /\ mm.result = <<MinOf(mm.arr), MaxOf(mm.arr)>>)
    /\ [](mm.pc = "raised" => (Len(mm.arr) = 0 /\ mm.calls = 0))
    /\ [](Len(mm.arr) = 0 => (mm.pc \in {"ready", "raised"} /\ mm.calls = 0))
    /\ <>(mm.pc \in {"returned", "raised"})

\* C17 happens: a list of the greatest length with a repeated value, whose
\* maximum stands only at the very end, has been answered through two levels
\* of recursion.
C17_Witness ==
    /\ mm.pc = "returned"
    /\ Len(mm.arr) = MmMaxLen
    /\ mm.calls >= 5
    /\ mm.result[1] < mm.result[2]
    /\ \A i \in 1..(Len(mm.arr) - 1) : mm.arr[i] < mm.arr[Len(mm.arr)]
    /\ \E i \in 1..Len(mm.arr), j \in 1..Len(mm.arr) : i # j /\ mm.arr[i] = mm.arr[j]
    /\ mm.result = <<MinOf(mm.arr), mm.arr[Len(mm.arr)]>>

\* The jobs in the order the batches draw on them: priority 1, then 2, then
\* 3, each in input order.
HasPriority1(j) == j.priority = 1
HasPriority2(j) == j.priority = 2
HasPriority3(j) == j.priority = 3

ByPriority(jobs) ==
    SelectSeq(jobs, HasPriority1) \o SelectSeq(jobs, HasPriority2)
        \o SelectSeq(jobs, HasPriority3)

\* One scan over the waiting jobs that takes every job that still fits.
RECURSIVE GreedyScan(_, _, _, _)
GreedyScan(waiting, cn, vol, cnt) ==
    IF Len(waiting) = 0 THEN <<>>
    ELSE IF cnt < cn.max_items /\ vol + Head(waiting).volume <= cn.max_volume
    THEN <<Head(waiting)>>
             \o GreedyScan(Tail(waiting), cn, vol + Head(waiting).volume, cnt + 1)
    ELSE GreedyScan(Tail(waiting), cn, vol, cnt)

Without(waiting, batch) ==
    SelectSeq(waiting, LAMBDA j : \A i \in 1..Len(batch) : batch[i].id # j.id)

\* The batches that scan gives, a job that fits nowhere being printed alone.
RECURSIVE GreedyBatches(_, _)
GreedyBatches(waiting, cn) ==
    IF Len(waiting) = 0 THEN <<>>
    ELSE LET scan == GreedyScan(waiting, cn, 0, 0)
             batch == IF Len(scan) = 0 THEN <<Head(waiting)>> ELSE scan
         IN  <<batch>> \o GreedyBatches(Without(waiting, batch), cn)

RECURSIVE SumOfLargest(_)
SumOfLargest(batches) ==
    IF Len(batches) = 0 THEN 0
    ELSE (CHOOSE t \in {Head(batches)[i].print_time : i \in 1..Len(Head(batches))} :
              \A i \in 1..Len(Head(batches)) : t >= Head(batches)[i].print_time)
         + SumOfLargest(Tail(batches))

\* The jobs still waiting for a batch.
PendingCount(p) == Len(p.pending[1]) + Len(p.pending[2]) + Len(p.pending[3])

C19_PrintOrderStable ==
    pr.pc = "returned" =>
        LET order == pr.result.print_order
            n == Len(pr.jobs)
        IN  /\ Len(order) = n
            /\ {order[i] : i \in 1..Len(order)} = {pr.jobs[i].id : i \in 1..n}
            /\ \A i \in 1..Len(order), j \in 1..Len(order) :
                   i < j =>
                       /\ order[i] # order[j]
                       /\ pr.jobs[order[i]].priority <= pr.jobs[order[j]].priority
                       /\ pr.jobs[order[i]].priority = pr.jobs[order[j]].priority =>
                              order[i] < order[j]

\* C19 happens: the batches took the jobs in another order than print_order
\* lists them, and print_order is not the input order either.
C19_Witness ==
    /\ pr.pc = "returned"
    /\ Len(pr.jobs) = PrMaxJobs
    /\ pr.result.print_order # PrintOrderByBatch(pr)
    /\ pr.result.print_order # Ids(pr.jobs)
    /\ \E i \in 1..(Len(pr.jobs) - 1) : pr.jobs[i].priority > pr.jobs[i + 1].priority

Timestamps(lim, user_id) ==
    IF user_id \in DOMAIN lim.history THEN lim.history[user_id] ELSE <<>>

\* the timestamps of dq that lie in the window (now - window_size, now]
InWindow(dq, now, window_size) ==
    SelectSeq(dq, LAMBDA ts : ts > now - window_size)

\* the step is a call of op by user_id
RlCalled(op, user_id) ==
    /\ rl'.calls = rl.calls + 1
    /\ rl'.last.op = op
    /\ rl'.last.user = user_id

\* the step leaves the deques of the users other than user_id as they are
OthersUnchanged(user_id) ==
    \A v \in RlUsers \ {user_id} :
        /\ (v \in DOMAIN rl'.limiter.history) = (v \in DOMAIN rl.limiter.history)
        /\ Timestamps(rl'.limiter, v) = Timestamps(rl.limiter, v)

\* C21: record_message(user) returns True exactly when the user's timestamps
\* that are still in the window (those newer than now - window_size) number
\* fewer than max_requests, and then the user's history is those timestamps
\* followed by now; otherwise it returns False and the user's timestamps are
\* what they were; the histories of the other users are unchanged either way.
C21_RecordMessage ==
    [][\A u \in RlUsers :
          RlCalled("record_message", u) =>
              \E live \in {InWindow(Timestamps(rl.limiter, u), rl.now,
                                    rl.limiter.window_size)} :
                  /\ rl'.last.value = (Len(live) < rl.limiter.max_requests)
                  /\ rl'.last.value =>
                        Timestamps(rl'.limiter, u) = Append(live, rl.now)
                  /\ ~rl'.last.value =>
                        Timestamps(rl'.limiter, u) = Timestamps(rl.limiter, u)
                  /\ OthersUnchanged(u)]_vars

\* a message accepted after an older one of the same user has left the
\* window, while another user has a message in the history
C21_Witness ==
    \E u \in RlUsers :
        /\ rl.last = [op |-> "record_message", user |-> u, value |-> TRUE]
        /\ Len(rl.accepted[u]) > Len(Timestamps(rl.limiter, u))
        /\ Len(Timestamps(rl.limiter, u)) = 2
        /\ \E v \in RlUsers \ {u} : Len(Timestamps(rl.limiter, v)) > 0


\* how many record_message calls of user_id returned True at a time in
\* (t - window_size, t]
AcceptedIn(user_id, t) ==
    Cardinality({i \in 1..Len(rl.accepted[user_id]) :
                    /\ rl.accepted[user_id][i] > t - rl.limiter.window_size
                    /\ rl.accepted[user_id][i] <= t})

OnlyLooked(user_id) ==
    /\ Timestamps(rl'.limiter, user_id)
           = InWindow(Timestamps(rl.limiter, user_id), rl.now, rl.limiter.window_size)
    /\ OthersUnchanged(user_id)
    /\ rl'.accepted = rl.accepted

\* C24: time_until_next_allowed(user) returns 0 exactly when
\* can_send_message(user) is True at the same instant, and otherwise the
\* positive time until the oldest timestamp in the window expires; a
\* record_message made that much later, with no message of the user recorded
\* in between, returns True; can_send_message and time_until_next_allowed
\* record no message.
C24_WaitThenAllowed ==
    /\ [][\A u \in RlUsers :
             RlCalled("time_until_next_allowed", u) =>
                 /\ (rl'.last.value = 0)
                        = can_send_message(rl.limiter, u, rl.now).value
                 /\ (rl'.last.value = 0)
                        = can_send_message(rl'.limiter, u, rl'.now).value
                 /\ rl'.last.value # 0 =>
                        /\ rl'.last.value > 0
                        /\ rl'.last.value
                               = InWindow(Timestamps(rl.limiter, u), rl.now,
                                          rl.limiter.window_size)[1]
                                 + rl.limiter.window_size - rl.now
                 /\ OnlyLooked(u)]_vars
    /\ [][\A u \in RlUsers :
             RlCalled("can_send_message", u) => OnlyLooked(u)]_vars
    /\ [][\A u \in RlUsers :
             (RlCalled("record_message", u) /\ rl.due[u] = rl.now)
                 => rl'.last.value]_vars


\* the number of the last call in log that touched key: a put of it or a get
\* that found it; 0 when there is none
LastTouch(log, key) ==
    LET touches == {i \in 1..Len(log) :
                       /\ log[i].key = key
                       /\ log[i].op = "put" \/ (log[i].op = "get" /\ log[i].found)}
    IN  IF touches = {} THEN 0
        ELSE CHOOSE i \in touches : \A j \in touches : j <= i

\* the step is a call of op on the cache
LruCalled(op) == Len(lru'.log) = Len(lru.log) + 1 /\ lru'.last.op = op

\* C23: for capacity >= 1 the cache never holds more than capacity entries
\* and the key just put is present; a put overflows exactly when the key is
\* new and the cache is full, and it then evicts the one key whose last put
\* or successful get is the oldest; a get of an absent key returns -1 and
\* leaves the cache as it was.
C23_LruEviction ==
    /\ [](lru.pc = "run" /\ lru.cache.capacity >= 1 =>
             /\ Len(lru.cache.od) <= lru.cache.capacity
             /\ Cardinality(OdKeys(lru.cache)) = Len(lru.cache.od)
             /\ lru.last.op = "put" => lru.last.key \in OdKeys(lru.cache))
    /\ [][(LruCalled("put") /\ lru.cache.capacity >= 1) =>
             \E held \in {OdKeys(lru.cache) \cup {lru'.last.key}} :
                 IF Cardinality(held) <= lru.cache.capacity
                 THEN /\ lru'.last.evicted = {}
                      /\ OdKeys(lru'.cache) = held
                 ELSE \E e \in held \ {lru'.last.key} :
                         /\ lru'.last.evicted = {e}
                         /\ OdKeys(lru'.cache) = held \ {e}
                         /\ \A k \in held \ {e} :
                                LastTouch(lru'.log, e) < LastTouch(lru'.log, k)]_vars
    /\ [][(LruCalled("get") /\ lru'.last.key \notin OdKeys(lru.cache)) =>
             lru'.last.value = -1 /\ lru'.cache = lru.cache]_vars

\* a put into a full cache of two evicted a key that was put after the key
\* that stays, because a get had touched that one since
C23_Witness ==
    /\ lru.pc = "run"
    /\ lru.cache.capacity = 2
    /\ lru.last.op = "put"
    /\ \E e \in lru.last.evicted, k \in OdKeys(lru.cache) \ {lru.last.key} :
           \E i, j, g \in 1..Len(lru.log) :
               /\ i < j /\ j < g
               /\ lru.log[i] = [op |-> "put", key |-> k, found |-> TRUE]
               /\ lru.log[j] = [op |-> "put", key |-> e, found |-> TRUE]
               /\ lru.log[g] = [op |-> "get", key |-> k, found |-> TRUE]

====
